---- MODULE Spec2Model ----
(***************************************************************************)
(* Model of the OmniBAR benchmark exporter and its HTTP facade:            *)
(*   - the spend tracker of scripts/export_benchmarks_snapshot.py          *)
(*     (_load_spend_tracker, _store_spend_tracker, _record_usage_cost),    *)
(*     called by one caller and by two callers at once;                    *)
(*   - the aggregation of evaluation logs (compute_results) and the        *)
(*     payload built from it (build_api_payload);                          *)
(*   - the mock suite payload of backend/app.py (_generate_suite_payload,  *)
(*     GET /benchmarks, POST /benchmarks/run, POST /benchmarks/smoke,      *)
(*     DELETE /runs and the run history);                                  *)
(*   - the latte lab of the backend (POST /lattes, GET /lattes,            *)
(*     GET /analytics/rollups) with its scoring (services/scoring.py) and  *)
(*     its run service (services/latte_service.py).                        *)
(*                                                                         *)
(* Money is an integer number of 1e-7 USD ("units"), so that round(x, 6)   *)
(* is a real rounding.  Python's None is the empty sequence <<>> and a     *)
(* present value v is <<v>>; a Python value stored in an agent's output    *)
(* is a record [kind, s, n].                                               *)
(***************************************************************************)
EXTENDS Integers, Sequences, FiniteSets, TLC

VARIABLES
    process,        \* which program runs: the "exporter" script or the "backend" server
    budget,         \* LLM_BUDGET_USD, read once from the environment (units)
    tracker_file,   \* content of SPEND_TRACKER_PATH: None when the file is missing
    calls,          \* number of _record_usage_cost calls made (the clock of events)
    last_call,      \* what the latest _record_usage_cost call did and returned
    inflight,       \* per caller: the _record_usage_cost call it is in, between load and store
    last_store,     \* the call whose _store_spend_tracker wrote the file last
    suites,         \* the suite runs: benchmark definitions and the logger's logs
    phase,          \* "running" while logs are recorded, "built" after build_api_payload,
                    \* "rebuilt" after a second build_api_payload on the same runs
    aggregated,     \* the result of compute_results
    payload,        \* the payload of build_api_payload
    CURRENT_SNAPSHOT, \* app.py: the payload served by GET /benchmarks
    RUN_HISTORY,    \* app.py: the run-history list
    requests,       \* app.py: entries created so far (the source of their uuid4 ids)
    recorded,       \* app.py: entries recorded since startup or the last DELETE /runs
    settings,       \* config.py: the Settings the server was started with
    latte_runs,     \* the rows of the latte_runs table, in the order of their insertion
    latte_request,  \* the body of the latest POST /lattes, None before the first
    model_calls,    \* what the OpenAI calls of the latest POST /lattes answered, None if not made
    last_response   \* what the latest HTTP request was answered with

vars == <<process, budget, tracker_file, calls, last_call, inflight, last_store, suites, phase,
          aggregated, payload, CURRENT_SNAPSHOT, RUN_HISTORY, requests, recorded,
          settings, latte_runs, latte_request, model_calls, last_response>>

trackerVars == <<budget, tracker_file, calls, last_call, inflight, last_store>>
aggVars == <<suites, phase, aggregated, payload>>
appVars == <<CURRENT_SNAPSHOT, RUN_HISTORY, requests, recorded, settings, latte_runs,
             latte_request, model_calls, last_response>>
latteVars == <<settings, latte_runs, latte_request, model_calls>>
benchVars == <<CURRENT_SNAPSHOT, RUN_HISTORY, requests, recorded>>

(***************************************************************************)
(* Bounds of the model.                                                    *)
(***************************************************************************)
MaxCalls == 3       \* _record_usage_cost calls in one behaviour
MaxLogs == 2        \* logs recorded by the loggers of one behaviour
MaxEntries == 2     \* evaluation entries in one log
MaxRuns == 1        \* POST /benchmarks/run and /benchmarks/smoke requests in one behaviour
MaxLattes == 2      \* rows POST /lattes inserts in one behaviour

(***************************************************************************)
(* Python values.                                                          *)
(***************************************************************************)
None == <<>>
Some(v) == <<v>>
IsNone(x) == x = <<>>
Val(x) == x[1]

PyNone == [kind |-> "none", s |-> "", n |-> 0]
PyStr(str) == [kind |-> "str", s |-> str, n |-> 0]
PyInt(i) == [kind |-> "int", s |-> "", n |-> i]
PyDict(size) == [kind |-> "dict", s |-> "", n |-> size]
PyList(size) == [kind |-> "list", s |-> "", n |-> size]

Max(a, b) == IF a >= b THEN a ELSE b
Min(a, b) == IF a <= b THEN a ELSE b

RECURSIVE SumSeq(_)
SumSeq(q) == IF q = <<>> THEN 0 ELSE q[1] + SumSeq(Tail(q))

\* round(x, 6) on a number of 1e-7 USD units: to the nearest multiple of 10,
\* a tie going to the even multiple (Python's round).
Round6(x) ==
    LET a == IF x >= 0 THEN x ELSE -x
        q == a \div 10
        r == a % 10
        up == IF r > 5 \/ (r = 5 /\ q % 2 = 1) THEN q + 1 ELSE q
    IN  IF x >= 0 THEN up * 10 ELSE -(up * 10)

(***************************************************************************)
(* The spend tracker.                                                      *)
(***************************************************************************)
OPENAI_COST_PER_1K_TOKENS == 30000      \* 0.003 USD per 1000 tokens, in units
SPEND_EVENT_LIMIT == 200

\* The budgets the environment may configure: none (0) or a positive ceiling.
BudgetChoices == {0, 1000}
\* Arguments of _record_usage_cost.
TokenChoices == {None, Some(10), Some(30)}
OverrideChoices == {None, Some(-200), Some(104), Some(850)}

\* the remaining budget without the floor at zero
RemainingBudgetUnclamped(total) ==
    IF budget > 0 THEN Some(budget - total) ELSE None

\* remaining_budget_usd as _load_spend_tracker and _store_spend_tracker compute it
RemainingBudget(total) ==
    IF budget > 0 THEN Some(Max(budget - total, 0)) ELSE None

FreshTracker ==
    [total_spend_usd |-> 0, events |-> <<>>, budget_usd |-> budget,
     remaining_budget_usd |-> IF budget > 0 THEN Some(budget) ELSE None]

\* _load_spend_tracker: readOk is whether open() and json.load() succeed
_load_spend_tracker(readOk) ==
    IF IsNone(tracker_file) THEN FreshTracker
    ELSE IF ~readOk THEN FreshTracker
    ELSE [Val(tracker_file) EXCEPT
            !.budget_usd = budget,
            !.remaining_budget_usd = RemainingBudget(Val(tracker_file).total_spend_usd)]

\* the tracker as _store_spend_tracker normalises it before writing
StoredTracker(tracker) ==
    [tracker EXCEPT !.budget_usd = budget,
                    !.remaining_budget_usd = RemainingBudget(tracker.total_spend_usd)]

\* _store_spend_tracker: writeOk is whether mkdir/open/json.dump succeed; a
\* failure is logged and the file keeps its content
_store_spend_tracker(tracker, writeOk) ==
    IF writeOk THEN Some(StoredTracker(tracker)) ELSE tracker_file

\* a call without tokens and override priced at zero instead of refused
UsageCostZero(total_tokens, cost_override_usd) ==
    IF ~IsNone(cost_override_usd) THEN Some(Val(cost_override_usd))
    ELSE IF ~IsNone(total_tokens)
         THEN Some((Val(total_tokens) * OPENAI_COST_PER_1K_TOKENS) \div 1000)
    ELSE Some(0)

\* cost_usd of a call, None when it cannot be determined
UsageCost(total_tokens, cost_override_usd) ==
    IF ~IsNone(cost_override_usd) THEN Some(Val(cost_override_usd))
    ELSE IF ~IsNone(total_tokens)
         THEN Some((Val(total_tokens) * OPENAI_COST_PER_1K_TOKENS) \div 1000)
    ELSE None

\* events.insert(0, event); del events[SPEND_EVENT_LIMIT:]
CapEvents(events) ==
    IF Len(events) > SPEND_EVENT_LIMIT THEN SubSeq(events, 1, SPEND_EVENT_LIMIT) ELSE events

\* the budget warnings one call logs
BudgetWarnings(total_spend) ==
    IF budget > 0
    THEN IF total_spend >= budget THEN {"100"}
         ELSE IF 10 * total_spend >= 8 * budget THEN {"80"}
         ELSE {}
    ELSE {}

PersistedTotal(file) == IF IsNone(file) THEN 0 ELSE Val(file).total_spend_usd

_record_usage_cost(total_tokens, cost_override_usd, readOk, writeOk) ==
    LET cost == UsageCost(total_tokens, cost_override_usd) IN
    IF IsNone(cost)
    THEN /\ last_call' = [returned |-> None, cost |-> None, warned |-> {},
                          total_tokens |-> total_tokens,
                          cost_override_usd |-> cost_override_usd,
                          total_loaded |-> PersistedTotal(tracker_file),
                          total_before |-> PersistedTotal(tracker_file),
                          total_after |-> PersistedTotal(tracker_file),
                          stored |-> FALSE]
         /\ UNCHANGED tracker_file
    ELSE LET loaded == _load_spend_tracker(readOk)
             total == loaded.total_spend_usd + Val(cost)
             event == [timestamp |-> calls + 1, tokens |-> total_tokens,
                       cost_usd |-> Round6(Val(cost))]
             tracker == StoredTracker(
                            [loaded EXCEPT !.total_spend_usd = total,
                                           !.events = CapEvents(<<event>> \o loaded.events)])
         IN  /\ tracker_file' = _store_spend_tracker(tracker, writeOk)
             /\ last_call' =
                    [returned |-> Some([cost_usd |-> Round6(Val(cost)),
                                        total_spend_usd |-> Round6(total),
                                        remaining_budget_usd |->
                                            IF IsNone(tracker.remaining_budget_usd) THEN None
                                            ELSE Some(Round6(Val(tracker.remaining_budget_usd)))]),
                     cost |-> cost,
                     warned |-> BudgetWarnings(total),
                     total_tokens |-> total_tokens,
                     cost_override_usd |-> cost_override_usd,
                     total_loaded |-> loaded.total_spend_usd,
                     total_before |-> PersistedTotal(tracker_file),
                     total_after |-> PersistedTotal(tracker_file'),
                     stored |-> writeOk]

NoCall == [returned |-> None, cost |-> None, warned |-> {},
           total_tokens |-> None, cost_override_usd |-> None,
           total_loaded |-> 0,
           total_before |-> 0, total_after |-> 0, stored |-> FALSE]

RecordUsage ==
    /\ calls < MaxCalls
    /\ \E total_tokens \in TokenChoices, cost_override_usd \in OverrideChoices,
          readOk \in BOOLEAN, writeOk \in BOOLEAN :
          _record_usage_cost(total_tokens, cost_override_usd, readOk, writeOk)
    /\ calls' = calls + 1
    /\ UNCHANGED <<process, budget, inflight, last_store, aggVars, appVars>>

(***************************************************************************)
(* _record_usage_cost called by two callers at once (two exporter runs on  *)
(* one tracker file): a call is two steps, from its entry to the end of    *)
(* the in-memory update (lines 130-152), and from _store_spend_tracker to  *)
(* its return (lines 154-177).  Nothing locks the file between them.       *)
(***************************************************************************)
Callers == {1, 2}

IdleCall == [pc |-> "idle", loaded |-> FreshTracker, read_ok |-> TRUE, cost |-> 0,
             event |-> None, stored |-> FALSE]

\* the event a call inserts
UsageEvent(total_tokens, cost) ==
    [timestamp |-> calls + 1, tokens |-> total_tokens, cost_usd |-> Round6(cost)]

\* the tracker a call would hold had it loaded the file at the moment it stores
CallTrackerReloaded(call) ==
    LET now == _load_spend_tracker(TRUE) IN
    [now EXCEPT !.total_spend_usd = now.total_spend_usd + call.cost,
                !.events = CapEvents(<<Val(call.event)>> \o now.events)]

\* the tracker a call holds in memory after lines 137-152: what it loaded,
\* plus its cost and its event
CallTracker(call) ==
    [call.loaded EXCEPT !.total_spend_usd = call.loaded.total_spend_usd + call.cost,
                        !.events = CapEvents(<<Val(call.event)>> \o call.loaded.events)]

\* the token counts of the calls that run at once
RaceTokenChoices == TokenChoices

\* lines 130-152: the cost, the load and the in-memory update; a call without
\* a cost returns at once
LoadUsage(c) ==
    /\ calls < MaxCalls
    /\ inflight[c].pc # "loaded"
    /\ \E total_tokens \in RaceTokenChoices, readOk \in BOOLEAN :
          LET cost == UsageCost(total_tokens, None) IN
          IF IsNone(cost)
          THEN /\ inflight' = [inflight EXCEPT ![c] = IdleCall]
               /\ last_call' = [NoCall EXCEPT
                                   !.total_loaded = PersistedTotal(tracker_file),
                                   !.total_before = PersistedTotal(tracker_file),
                                   !.total_after = PersistedTotal(tracker_file)]
          ELSE /\ inflight' = [inflight EXCEPT ![c] =
                                  [pc |-> "loaded", loaded |-> _load_spend_tracker(readOk),
                                   read_ok |-> readOk,
                                   cost |-> Val(cost),
                                   event |-> Some(UsageEvent(total_tokens, Val(cost))),
                                   stored |-> FALSE]]
               /\ UNCHANGED last_call
    /\ calls' = calls + 1
    /\ UNCHANGED <<process, budget, tracker_file, last_store, aggVars, appVars>>

\* lines 154-177: the store, the budget warnings and the return
StoreUsage(c) ==
    /\ inflight[c].pc = "loaded"
    /\ \E writeOk \in BOOLEAN :
          LET call == inflight[c]
              tracker == StoredTracker(CallTracker(call))
          IN  /\ tracker_file' = _store_spend_tracker(tracker, writeOk)
              /\ last_store' = IF writeOk THEN Some([call EXCEPT !.stored = TRUE])
                                ELSE last_store
              /\ inflight' = [inflight EXCEPT ![c] = [call EXCEPT !.pc = "done",
                                                                  !.stored = writeOk]]
              /\ last_call' =
                     [returned |-> Some([cost_usd |-> Round6(call.cost),
                                         total_spend_usd |-> Round6(tracker.total_spend_usd),
                                         remaining_budget_usd |->
                                             IF IsNone(tracker.remaining_budget_usd) THEN None
                                             ELSE Some(Round6(Val(tracker.remaining_budget_usd)))]),
                      cost |-> Some(call.cost),
                      warned |-> BudgetWarnings(tracker.total_spend_usd),
                      total_tokens |-> Val(call.event).tokens,
                      cost_override_usd |-> None,
                      total_loaded |-> call.loaded.total_spend_usd,
                      total_before |-> PersistedTotal(tracker_file),
                      total_after |-> PersistedTotal(tracker_file'),
                      stored |-> writeOk]
    /\ UNCHANGED <<process, budget, calls, aggVars, appVars>>

(***************************************************************************)
(* Evaluation logs: what the benchmarker's logger holds after a suite ran. *)
(***************************************************************************)
\* eval_result: BoolEvalResult, FloatEvalResult or InvalidEvalResult
BoolResult(flag, message) == [kind |-> "bool", flag |-> flag, score |-> 0, message |-> message]
FloatResult(score, message) == [kind |-> "float", flag |-> FALSE, score |-> score, message |-> message]
InvalidResult(message) == [kind |-> "invalid", flag |-> FALSE, score |-> 0, message |-> message]

\* getattr(entry.eval_result, "result", None), then bool(result)
ResultTruth(eval_result) ==
    CASE eval_result.kind = "bool" -> eval_result.flag
      [] eval_result.kind = "float" -> eval_result.score # 0
      [] OTHER -> FALSE

\* An agent's output dict: the keys compute_results reads by name, and the
\* other keys as a set of <<key, value>> pairs.
EmptyOutput == [call_id |-> None, usage |-> None, cost_usd |-> None,
                confidence |-> None, fields |-> {}]
Usage(total, prompt, completion) ==
    [total_tokens |-> total, prompt_tokens |-> prompt, completion_tokens |-> completion]

\* bool(evaluated_output): a dict is true when it has a key
OutputTruthy(out) == out # EmptyOutput

\* evaluated_output.get(key)
OutputGet(out, key) ==
    IF \E p \in out.fields : p[1] = key
    THEN (CHOOSE p \in out.fields : p[1] = key)[2]
    ELSE PyNone

\* len(json.dumps(evaluated_output)): the braces, and per key its quoted name,
\* the separators and a value of typical width
JsonLen(out) ==
    2 + (IF IsNone(out.call_id) THEN 0 ELSE 49)
      + (IF IsNone(out.usage) THEN 0 ELSE 75)
      + (IF IsNone(out.cost_usd) THEN 0 ELSE 21)
      + (IF IsNone(out.confidence) THEN 0 ELSE 19)
      + 24 * Cardinality(out.fields)

\* the comparison without .lower()
LowerOmitted(str) == str

\* str.lower() on the strings agents return
Lower(str) ==
    CASE str = "ERROR" -> "error"
      [] str = "Not_Found" -> "not_found"
      [] str = "Unsupported" -> "unsupported"
      [] str = "Found" -> "found"
      [] OTHER -> str

\* actual_value in (None, "", {}, [])
InEmptyTuple(v) ==
    \/ v.kind = "none"
    \/ v.kind = "str" /\ v.s = ""
    \/ v.kind = "dict" /\ v.n = 0
    \/ v.kind = "list" /\ v.n = 0

\* the heuristic failure category of a failing entry
FailureCategory(actual_value) ==
    IF InEmptyTuple(actual_value) THEN "format"
    ELSE IF actual_value.kind = "str"
            /\ Lower(actual_value.s) \in {"error", "unsupported", "not_found"}
         THEN "unsupported"
    ELSE "logic"

\* failure_reason: the message, else "Expected <goal>, got <actual>", else a fixed text
FailureReason(message, expected_goal, actual_value) ==
    IF ~IsNone(message) /\ Val(message) # "" THEN <<"message", Val(message)>>
    ELSE IF ~IsNone(expected_goal) THEN <<"Expected, got", Val(expected_goal), actual_value>>
    ELSE <<"Objective failed">>

\* (log.time_ended - log.time_started).total_seconds() if both else 0.0
Latency(log) ==
    IF ~IsNone(log.time_ended) /\ ~IsNone(log.time_started)
    THEN Val(log.time_ended) - Val(log.time_started)
    ELSE 0

\* tokens / 1000.0 * OPENAI_COST_PER_1K_TOKENS
TokenCost(tokens) == (tokens * OPENAI_COST_PER_1K_TOKENS) \div 1000

\* the accumulator of an earlier compute_results pass taken up again
CarriedStats(suite_name, benchmark) ==
    IF benchmark.uuid \in DOMAIN aggregated.stats
    THEN aggregated.stats[benchmark.uuid]
    ELSE [name |-> benchmark.name, iterations |-> benchmark.iterations,
          failure_flag |-> FALSE, suite |-> suite_name,
          latencies |-> <<>>, token_counts |-> <<>>, costs |-> <<>>,
          usage_call_ids |-> {}, confidences |-> <<>>, history |-> <<>>,
          error_flags |-> {}, inputs |-> benchmark.input_kwargs,
          latest_failure |-> None]

\* the accumulator compute_results creates for a benchmark definition
FreshStats(suite_name, benchmark) ==
    [name |-> benchmark.name, iterations |-> benchmark.iterations,
     failure_flag |-> FALSE, suite |-> suite_name,
     latencies |-> <<>>, token_counts |-> <<>>, costs |-> <<>>,
     usage_call_ids |-> {}, confidences |-> <<>>, history |-> <<>>,
     error_flags |-> {}, inputs |-> benchmark.input_kwargs,
     latest_failure |-> None]

\* total_tokens of a usage block: total_tokens, else prompt + completion
UsageTokens(usage) ==
    IF IsNone(usage) THEN None
    ELSE IF ~IsNone(Val(usage).total_tokens) THEN Val(usage).total_tokens
    ELSE IF ~IsNone(Val(usage).prompt_tokens) /\ ~IsNone(Val(usage).completion_tokens)
         THEN Some(Val(Val(usage).prompt_tokens) + Val(Val(usage).completion_tokens))
    ELSE None

(***************************************************************************)
(* compute_results: the fold of the logs into one accumulator per          *)
(* benchmark definition.                                                   *)
(***************************************************************************)
\* if call_id and call_id not in stats["usage_call_ids"]
CallIsNew(stats, call_id) ==
    /\ ~IsNone(call_id)
    /\ Val(call_id) # ""
    /\ Val(call_id) \notin stats.usage_call_ids

\* the token and cost samples one entry adds (lines 1144-1188)
FoldUsage(stats, out) ==
    LET fresh == CallIsNew(stats, out.call_id)
        total_tokens == IF fresh THEN UsageTokens(out.usage) ELSE None
        token_added1 == fresh /\ ~IsNone(total_tokens)
        tok1 == IF token_added1 THEN Append(stats.token_counts, Val(total_tokens))
                ELSE stats.token_counts
        cost_added1 == fresh /\ (~IsNone(out.cost_usd) \/ token_added1)
        costs1 == IF fresh /\ ~IsNone(out.cost_usd) THEN Append(stats.costs, Val(out.cost_usd))
                  ELSE IF fresh /\ token_added1 /\ tok1 # <<>>
                       THEN Append(stats.costs, TokenCost(tok1[Len(tok1)]))
                  ELSE stats.costs
        truthy == OutputTruthy(out)
        tok2 == IF truthy /\ ~token_added1
                THEN Append(tok1, Max(JsonLen(out) \div 4, 1))
                ELSE tok1
        token_added2 == token_added1 \/ truthy
        costs2 == IF truthy /\ ~cost_added1 /\ token_added2 /\ tok2 # <<>>
                  THEN Append(costs1, TokenCost(tok2[Len(tok2)]))
                  ELSE costs1
    IN  [stats EXCEPT
            !.usage_call_ids = IF fresh THEN @ \cup {Val(out.call_id)} ELSE @,
            !.token_counts = tok2,
            !.costs = costs2,
            !.confidences = IF truthy /\ ~IsNone(out.confidence)
                            THEN Append(@, Val(out.confidence)) ELSE @]

\* the record an entry leaves in latest_failure
FailureRecord(log, message, actual_value) ==
    [objective |-> log.metadata.objective_name,
     reason |-> FailureReason(message, log.metadata.objective_goal, actual_value),
     category |-> FailureCategory(actual_value),
     expected |-> log.metadata.objective_goal,
     actual |-> actual_value]

\* the history record of an entry with the result left at its default
EntryHistoryResultTrue(log, entry, success, actual_value) ==
    [timestamp |-> entry.timestamp,
     objective |-> log.metadata.objective_name,
     result |-> TRUE,
     message |-> entry.eval_result.message,
     expected |-> log.metadata.objective_goal,
     actual |-> actual_value,
     failureCategory |-> IF success THEN None ELSE Some(FailureCategory(actual_value)),
     latencySeconds |-> Latency(log)]

\* the history record of an entry
EntryHistory(log, entry, success, actual_value) ==
    [timestamp |-> entry.timestamp,
     objective |-> log.metadata.objective_name,
     result |-> success,
     message |-> entry.eval_result.message,
     expected |-> log.metadata.objective_goal,
     actual |-> actual_value,
     failureCategory |-> IF success THEN None ELSE Some(FailureCategory(actual_value)),
     latencySeconds |-> Latency(log)]

\* the synthetic history record of a log with no entries
NoEntriesHistory(log) ==
    [timestamp |-> log.time_started,
     objective |-> log.metadata.objective_name,
     result |-> FALSE,
     message |-> Some("No evaluator entries recorded"),
     expected |-> log.metadata.objective_goal,
     actual |-> PyNone,
     failureCategory |-> Some("infrastructure"),
     latencySeconds |-> Latency(log)]

\* RecordFailure without "stats['failure_flag'] = True"
RecordFailureNoFlag(stats, log, message, actual_value) ==
    [stats EXCEPT
        !.error_flags = @ \cup {FailureCategory(actual_value)},
        !.latest_failure = Some(FailureRecord(log, message, actual_value))]

\* RecordFailure keeping the first failure instead of the last
RecordFailureFirstWins(stats, log, message, actual_value) ==
    [stats EXCEPT
        !.failure_flag = TRUE,
        !.error_flags = @ \cup {FailureCategory(actual_value)},
        !.latest_failure = IF IsNone(@)
                           THEN Some(FailureRecord(log, message, actual_value)) ELSE @]

\* what a failing entry does to the accumulator besides its history record
RecordFailure(stats, log, message, actual_value) ==
    [stats EXCEPT
        !.failure_flag = TRUE,
        !.error_flags = @ \cup {FailureCategory(actual_value)},
        !.latest_failure = Some(FailureRecord(log, message, actual_value))]

\* FoldEntry with the history record appended in the failure branch only
FoldEntryFailuresOnly(stats, log, entry) ==
    LET success == ResultTruth(entry.eval_result)
        out == entry.evaluated_output
        output_key == log.metadata.objective_output_key
        actual_value == IF ~IsNone(output_key) /\ Val(output_key) # ""
                        THEN OutputGet(out, Val(output_key)) ELSE PyNone
        s1 == FoldUsage(stats, out)
    IN  IF ~success
        THEN [RecordFailure(s1, log, entry.eval_result.message, actual_value) EXCEPT
                 !.history = Append(@, EntryHistory(log, entry, success, actual_value))]
        ELSE s1

\* the body of "for entry in log.entries"
FoldEntry(stats, log, entry) ==
    LET success == ResultTruth(entry.eval_result)
        out == entry.evaluated_output
        output_key == log.metadata.objective_output_key
        actual_value == IF ~IsNone(output_key) /\ Val(output_key) # ""
                        THEN OutputGet(out, Val(output_key)) ELSE PyNone
        s1 == FoldUsage(stats, out)
        s2 == IF ~success
              THEN RecordFailure(s1, log, entry.eval_result.message, actual_value)
              ELSE s1
    IN  [s2 EXCEPT !.history = Append(@, EntryHistory(log, entry, success, actual_value))]

RECURSIVE FoldEntries(_, _, _)
FoldEntries(stats, log, entries) ==
    IF entries = <<>> THEN stats
    ELSE FoldEntries(FoldEntry(stats, log, entries[1]), log, Tail(entries))

\* FoldNoEntries without "stats['failure_flag'] = True"
FoldNoEntriesNoFlag(stats, log) ==
    [stats EXCEPT !.history = Append(@, NoEntriesHistory(log))]

\* FoldNoEntries recording the failure the way a failing entry does
FoldNoEntriesAsEntry(stats, log) ==
    [stats EXCEPT !.failure_flag = TRUE,
                  !.error_flags = @ \cup {"infrastructure"},
                  !.latest_failure = Some(FailureRecord(log, None, PyNone)),
                  !.history = Append(@, NoEntriesHistory(log))]

\* what a log with no entries does to the accumulator
FoldNoEntries(stats, log) ==
    [stats EXCEPT !.failure_flag = TRUE,
                  !.history = Append(@, NoEntriesHistory(log))]

\* the body of "for log in marker.logger.get_all_logs()" for a known benchmark
FoldLog(stats, log) ==
    LET s1 == [stats EXCEPT !.latencies = Append(@, Latency(log))]
    IN  IF log.entries = <<>> THEN FoldNoEntries(s1, log)
        ELSE FoldEntries(s1, log, log.entries)

\* the dict "aggregated": the keys in insertion order and the value of each
EmptyAggregated == [order |-> <<>>, stats |-> [id \in {} |-> 0]]

AggKeys(agg) == DOMAIN agg.stats

AggSet(agg, id, value) ==
    [order |-> IF id \in AggKeys(agg) THEN agg.order ELSE Append(agg.order, id),
     stats |-> [k \in AggKeys(agg) \cup {id} |-> IF k = id THEN value ELSE agg.stats[k]]]

RECURSIVE RegisterBenchmarks(_, _, _)
RegisterBenchmarks(agg, suite_name, benchmarks) ==
    IF benchmarks = <<>> THEN agg
    ELSE RegisterBenchmarks(
            AggSet(agg, benchmarks[1].uuid, FreshStats(suite_name, benchmarks[1])),
            suite_name, Tail(benchmarks))

\* FoldLogs with an accumulator created for a log of an unknown benchmark
RECURSIVE FoldLogsAddsUnknown(_, _)
FoldLogsAddsUnknown(agg, logs) ==
    IF logs = <<>> THEN agg
    ELSE LET log == logs[1]
             known == IF log.benchmark_id \in AggKeys(agg) THEN agg
                      ELSE AggSet(agg, log.benchmark_id,
                                  FreshStats("default",
                                             [uuid |-> log.benchmark_id, name |-> log.benchmark_id,
                                              iterations |-> 1, input_kwargs |-> <<>>]))
         IN  FoldLogsAddsUnknown(AggSet(known, log.benchmark_id,
                                        FoldLog(known.stats[log.benchmark_id], log)),
                                 Tail(logs))

RECURSIVE FoldLogs(_, _)
FoldLogs(agg, logs) ==
    IF logs = <<>> THEN agg
    ELSE LET log == logs[1] IN
         IF log.benchmark_id \notin AggKeys(agg)
         THEN FoldLogs(agg, Tail(logs))
         ELSE FoldLogs(AggSet(agg, log.benchmark_id,
                              FoldLog(agg.stats[log.benchmark_id], log)),
                       Tail(logs))

RECURSIVE ComputeSuites(_, _)
ComputeSuites(agg, ss) ==
    IF ss = <<>> THEN agg
    ELSE ComputeSuites(
            FoldLogs(RegisterBenchmarks(agg, ss[1].name, ss[1].initial_input), ss[1].logs),
            Tail(ss))

compute_results(ss) == ComputeSuites(EmptyAggregated, ss)

(***************************************************************************)
(* build_api_payload.  Rates are in hundredths, latencies in milliseconds; *)
(* the wall-clock fields (updatedAt, generatedAt, lastFailureAt) are left  *)
(* out.                                                                    *)
(***************************************************************************)
Mean(q) == IF q = <<>> THEN 0 ELSE SumSeq(q) \div Len(q)

\* sorted(error_flags_raw)
SortedFlags(flags) ==
    LET pick(name) == IF name \in flags THEN <<name>> ELSE <<>>
    IN  pick("format") \o pick("logic") \o pick("unsupported")

\* BenchmarkStatus with a third status that the summary does not count
BenchmarkStatusError(failure_flag) == IF ~failure_flag THEN "success" ELSE "error"

\* status = "success" if not failure_flag else "failed"
BenchmarkStatus(failure_flag) == IF ~failure_flag THEN "success" ELSE "failed"

\* round(success_rate, 2), in hundredths
SuccessRate(total, failure_flag) ==
    LET success_count == IF failure_flag THEN 0 ELSE total
    IN  IF total # 0 THEN (success_count * 100) \div total ELSE 0

\* one element of benchmarks_payload
BenchmarkPayload(benchmark_id, data) ==
    LET avg_tokens == Mean(data.token_counts)
        avg_cost == IF data.costs # <<>> THEN Mean(data.costs) ELSE TokenCost(avg_tokens)
    IN  [id |-> benchmark_id,
         name |-> data.name,
         iterations |-> data.iterations,
         successRate |-> SuccessRate(data.iterations, data.failure_flag),
         status |-> BenchmarkStatus(data.failure_flag),
         suite |-> data.suite,
         latencySeconds |-> Mean(data.latencies),
         tokensUsed |-> avg_tokens,
         costUsd |-> Round6(avg_cost),
         confidenceReported |-> IF data.confidences # <<>>
                                THEN Some(Mean(data.confidences)) ELSE None,
         confidenceCalibrated |-> SuccessRate(data.iterations, data.failure_flag),
         errorFlags |-> SortedFlags(data.error_flags),
         history |-> data.history,
         inputs |-> data.inputs,
         latestFailure |-> data.latest_failure]

RECURSIVE BenchmarksPayload(_, _)
BenchmarksPayload(agg, order) ==
    IF order = <<>> THEN <<>>
    ELSE <<BenchmarkPayload(order[1], agg.stats[order[1]])>>
         \o BenchmarksPayload(agg, Tail(order))

\* the summary counted while benchmarks_payload is built
RECURSIVE Summary(_)
Summary(benchmarks) ==
    IF benchmarks = <<>> THEN [total |-> 0, success |-> 0, failed |-> 0, costUsd |-> 0]
    ELSE LET rest == Summary(Tail(benchmarks))
             b == benchmarks[1]
         IN  [total |-> rest.total + 1,
              success |-> rest.success + (IF b.status = "success" THEN 1 ELSE 0),
              failed |-> rest.failed + (IF b.status = "failed" THEN 1 ELSE 0),
              costUsd |-> rest.costUsd + b.costUsd]

\* latest_failure.get("category") of "benchmark.get('latestFailure') or {}"
InsightCategory(latestFailure) ==
    IF IsNone(latestFailure) THEN None ELSE Some(Val(latestFailure).category)

\* latest_failure.get("reason", default)
InsightReason(latestFailure, default) ==
    IF IsNone(latestFailure) THEN <<default>> ELSE Val(latestFailure).reason

FailureInsight(benchmark) ==
    [id |-> <<"issue", benchmark.id>>,
     benchmarkId |-> benchmark.id,
     benchmarkName |-> benchmark.name,
     failureRate |-> 100 - benchmark.successRate,
     topIssues |-> <<InsightReason(benchmark.latestFailure,
                                   "Mismatch between expected and actual outputs."),
                     <<"Agent requires regression coverage for this flow.">> >>,
     recommendedFix |-> "Tighten validation and adjust prompt/tool usage for this scenario.",
     failureCategory |-> InsightCategory(benchmark.latestFailure),
     inputs |-> benchmark.inputs,
     history |-> benchmark.history]

Recommendation(benchmark) ==
    [id |-> <<"rec", benchmark.id>>,
     title |-> <<"Restore", benchmark.name>>,
     impact |-> "High impact - Medium effort",
     summary |-> InsightReason(benchmark.latestFailure,
                               "Failures in this scenario affect reliability scorecards."),
     action |-> "Add OmniBAR regression test and rerun after fixing agent logic."]

\* an insight for every benchmark, whatever its status
RECURSIVE FailureInsightsAll(_)
FailureInsightsAll(benchmarks) ==
    IF benchmarks = <<>> THEN <<>>
    ELSE <<FailureInsight(benchmarks[1])>> \o FailureInsightsAll(Tail(benchmarks))

RECURSIVE FailureInsights(_)
FailureInsights(benchmarks) ==
    IF benchmarks = <<>> THEN <<>>
    ELSE (IF benchmarks[1].status # "success" THEN <<FailureInsight(benchmarks[1])>> ELSE <<>>)
         \o FailureInsights(Tail(benchmarks))

RECURSIVE Recommendations(_)
Recommendations(benchmarks) ==
    IF benchmarks = <<>> THEN <<>>
    ELSE (IF benchmarks[1].status # "success" THEN <<Recommendation(benchmarks[1])>> ELSE <<>>)
         \o Recommendations(Tail(benchmarks))

\* payload["openaiSpend"], from the tracker as _load_spend_tracker reads it
OpenaiSpend(readOk) ==
    LET spend_snapshot == _load_spend_tracker(readOk)
    IN  [totalUsd |-> Round6(spend_snapshot.total_spend_usd),
         budgetUsd |-> spend_snapshot.budget_usd,
         remainingUsd |-> spend_snapshot.remaining_budget_usd,
         lastEvent |-> IF spend_snapshot.events # <<>>
                       THEN Some(spend_snapshot.events[1]) ELSE None]

build_api_payload(ss, readOk) ==
    LET results == compute_results(ss)
        benchmarks_payload == BenchmarksPayload(results, results.order)
    IN  [summary |-> Summary(benchmarks_payload),
         benchmarks |-> benchmarks_payload,
         liveRuns |-> <<>>,
         failureInsights |-> FailureInsights(benchmarks_payload),
         recommendations |-> Recommendations(benchmarks_payload),
         openaiSpend |-> OpenaiSpend(readOk)]

(***************************************************************************)
(* backend/app.py: the mock suite payload and POST /benchmarks/run.        *)
(* Rates are in thousandths.  The latency, cost and token fields, drawn    *)
(* at random and read by nothing else, and the wall-clock fields are left  *)
(* out.                                                                    *)
(***************************************************************************)
MAX_HISTORY == 30

Template(id, name, iterations, base_success, suite, objective, reason) ==
    [id |-> id, name |-> name, iterations |-> iterations, base_success |-> base_success,
     suite |-> suite, failure_objective |-> objective, failure_reason |-> reason]

SUITE_TEMPLATES(suite) ==
    CASE suite = "output" ->
            <<Template("calc-string-check", "Addition String Check", 5, 930, "output",
                       "Addition accurate", "Mismatch between expected string and response."),
              Template("calc-regex-match", "Multiplication Regex", 4, 880, "output",
                       "Regex captures product",
                       "Output failed to match the expected multiplication pattern."),
              Template("calc-objective-run", "Combined Objective Run", 3, 810, "output",
                       "All calculator objectives pass",
                       "One or more scenarios returned incorrect arithmetic.")>>
      [] suite = "custom" ->
            <<Template("custom-weather", "Weather Agent Scenario", 6, 790, "custom",
                       "Weather summary accuracy",
                       "Temperature range omitted or mismatched city."),
              Template("custom-translate", "Translation Agent Accuracy", 5, 840, "custom",
                       "EN-ES translation fidelity",
                       "Idiomatic phrase translated too literally."),
              Template("custom-fallbacks", "Fallback Strategy Guardrails", 4, 750, "custom",
                       "Escalation to human",
                       "Agent failed to surface escalation guidance after tool failure.")>>
      [] suite = "crisis" ->
            <<Template("crisis-inventory", "Inventory Fulfillment", 7, 770, "crisis",
                       "Backorder mitigation",
                       "Critical SKUs not prioritized during shortage."),
              Template("crisis-routing", "Crisis Routing Plan", 6, 700, "crisis",
                       "Delivery routing", "Suboptimal route increased ETA beyond policy."),
              Template("crisis-communication", "Stakeholder Comms", 5, 830, "crisis",
                       "Escalation cadence", "Status updates missed 30-min SLA window.")>>
      [] OTHER -> <<>>

\* SUITE_LABELS.get(suite, suite.title())
SuiteLabel(suite) ==
    CASE suite = "output" -> "Calculator Demo Suite"
      [] suite = "custom" -> "Custom Agents Suite"
      [] suite = "crisis" -> "Crisis Command Suite"
      [] suite = "all" -> "Run Everything"
      [] suite = "math" -> "Math"
      [] suite = "coding" -> "Coding"
      [] OTHER -> suite

_iter_suite_templates(suite) ==
    IF suite = "all"
    THEN SUITE_TEMPLATES("output") \o SUITE_TEMPLATES("custom") \o SUITE_TEMPLATES("crisis")
    ELSE SUITE_TEMPLATES(suite)

_bounded(value) == Max(0, Min(1000, value))

\* the values random.uniform(-0.08, 0.08) is drawn from here
NoiseChoices == {-80, 80}
\* the suites and thresholds a request names
SuiteChoices == {"output", "custom", "crisis", "all", "math", "coding"}
ThresholdChoices == {None}

_generate_history_slice(success_rate) ==
    [step \in 1..3 |->
        [objective |-> <<"Check", step>>,
         result |-> (success_rate > 500 \/ step - 1 < 1),
         message |-> "Objective evaluated via OmniBAR mock snapshot."]]

\* status = "success" if success_rate >= 0.8 else "failed"
MockStatus(success_rate) == IF success_rate >= 800 THEN "success" ELSE "failed"

\* the category the mock payload gives a failure
MockFailureCategory == "quality"

MockBenchmark(template, success_rate) ==
    [id |-> template.id, name |-> template.name, iterations |-> template.iterations,
     successRate |-> success_rate, status |-> MockStatus(success_rate),
     suite |-> template.suite,
     confidenceReported |-> _bounded((success_rate * 96) \div 100),
     confidenceCalibrated |-> _bounded((success_rate * 92) \div 100),
     history |-> _generate_history_slice(success_rate),
     latestFailure |-> IF MockStatus(success_rate) = "failed"
                       THEN Some([objective |-> template.failure_objective,
                                  reason |-> template.failure_reason,
                                  category |-> MockFailureCategory])
                       ELSE None]

MockInsight(template, success_rate) ==
    [id |-> <<"insight", template.id>>, benchmarkId |-> template.id,
     benchmarkName |-> template.name, failureRate |-> 1000 - success_rate,
     topIssues |-> <<template.failure_reason, "Requires operator follow-up.">>,
     recommendedFix |-> "Review prompt strategy and re-run targeted objectives.",
     failureCategory |-> Some(MockFailureCategory),
     history |-> _generate_history_slice(success_rate)]

RECURSIVE CountStatus(_, _)
CountStatus(benchmarks, status) ==
    IF benchmarks = <<>> THEN 0
    ELSE (IF benchmarks[1].status = status THEN 1 ELSE 0)
         + CountStatus(Tail(benchmarks), status)

RECURSIVE MockInsights(_, _)
MockInsights(templates, rates) ==
    IF templates = <<>> THEN <<>>
    ELSE (IF MockStatus(rates[1]) = "failed"
          THEN <<MockInsight(templates[1], rates[1])>> ELSE <<>>)
         \o MockInsights(Tail(templates), Tail(rates))

\* the summary of the mock payload: total is len(benchmarks), success and
\* failed are counted in the loop
MockSummary(benchmarks) ==
    [total |-> Len(benchmarks),
     success |-> CountStatus(benchmarks, "success"),
     failed |-> CountStatus(benchmarks, "failed")]

\* _generate_suite_payload with the random draws noise[i] of template i
_generate_suite_payload(suite, threshold, noise) ==
    LET templates == _iter_suite_templates(suite)
        rates == [i \in 1..Len(templates) |-> _bounded(templates[i].base_success + noise[i])]
        benchmarks == [i \in 1..Len(templates) |-> MockBenchmark(templates[i], rates[i])]
    IN  [benchmarks |-> benchmarks,
         summary |-> MockSummary(benchmarks),
         failureInsights |-> MockInsights(templates, rates),
         recommendations |-> << <<"rec", suite, "playbook">>, <<"rec", suite, "guardrails">> >>,
         threshold |-> threshold]

\* every payload _generate_suite_payload can produce
SuitePayloads(suite, threshold) ==
    { _generate_suite_payload(suite, threshold, noise) :
        noise \in [1..Len(_iter_suite_templates(suite)) -> NoiseChoices] }

\* the entry of a run whose derived status ignores the failures
SuiteRunEntryAlwaysSuccess(suite, p, threshold) ==
    [id |-> requests + 1,
     suite |-> suite, suiteLabel |-> SuiteLabel(suite), summary |-> p.summary,
     benchmarkCount |-> p.summary.total, failed |-> p.summary.failed,
     success |-> p.summary.success,
     status |-> "success",
     threshold |-> threshold]

\* the entry _record_suite_run inserts; its uuid4 id is the number of the entry
SuiteRunEntry(suite, p, threshold) ==
    [id |-> requests + 1,
     suite |-> suite, suiteLabel |-> SuiteLabel(suite), summary |-> p.summary,
     benchmarkCount |-> p.summary.total, failed |-> p.summary.failed,
     success |-> p.summary.success,
     status |-> IF p.summary.failed = 0 THEN "success" ELSE "needs_attention",
     threshold |-> threshold]

\* the insertion with the newest entry evicted instead of the oldest
InsertRunEvictNewest(history, entry) ==
    LET grown == <<entry>> \o history
    IN  IF Len(grown) > MAX_HISTORY THEN SubSeq(grown, 2, Len(grown)) ELSE grown

\* RUN_HISTORY.insert(0, entry); del RUN_HISTORY[MAX_HISTORY:]
InsertRun(history, entry) ==
    LET grown == <<entry>> \o history
    IN  IF Len(grown) > MAX_HISTORY THEN SubSeq(grown, 1, MAX_HISTORY) ELSE grown

_record_suite_run(suite, p, threshold) ==
    RUN_HISTORY' = InsertRun(RUN_HISTORY, SuiteRunEntry(suite, p, threshold))

\* the answer to an HTTP request: status code and body
Response(endpoint, status, body) ==
    [endpoint |-> endpoint, status |-> status, body |-> body]

NoResponse == Response("", 0, None)

\* the payloads a request for each suite can get
RunPayloads ==
    [suite \in SuiteChoices, threshold \in ThresholdChoices |-> SuitePayloads(suite, threshold)]

\* POST /benchmarks/run for a suite among choices: the payload returned is the
\* one stored in CURRENT_SNAPSHOT
RunBenchmarkSuite(choices) ==
    /\ process = "backend"
    /\ requests < MaxRuns
    /\ \E suite \in choices, threshold \in ThresholdChoices :
          \E p \in RunPayloads[suite, threshold] :
             /\ CURRENT_SNAPSHOT' = p
             /\ _record_suite_run(suite, p, threshold)
             /\ last_response' = Response("POST /benchmarks/run", 200, p)
    /\ requests' = requests + 1
    /\ recorded' = recorded + 1
    /\ UNCHANGED <<process, trackerVars, aggVars, latteVars>>

run_benchmark_suite == RunBenchmarkSuite(SuiteChoices)

\* GET /benchmarks: a snapshot without benchmarks is replaced by a fresh payload
\* of the "output" suite before its benchmark list is returned
get_benchmarks_snapshot ==
    /\ process = "backend"
    /\ \E p \in RunPayloads["output", None] :
          CURRENT_SNAPSHOT' =
              IF CURRENT_SNAPSHOT.benchmarks = <<>> THEN p ELSE CURRENT_SNAPSHOT
    /\ last_response' = Response("GET /benchmarks", 200, CURRENT_SNAPSHOT'.benchmarks)
    /\ UNCHANGED <<process, RUN_HISTORY, requests, recorded, trackerVars, aggVars, latteVars>>

\* the entry POST /benchmarks/smoke inserts
SmokeEntry(id) ==
    [id |-> id,
     suite |-> "smoke", suiteLabel |-> "LLM Smoke Test",
     summary |-> [total |-> 1, success |-> 1, failed |-> 0],
     benchmarkCount |-> 1, failed |-> 0, success |-> 1,
     status |-> "success",
     threshold |-> None]

\* POST /benchmarks/smoke
run_smoke_test ==
    /\ process = "backend"
    /\ requests < MaxRuns
    /\ RUN_HISTORY' = InsertRun(RUN_HISTORY, SmokeEntry(requests + 1))
    /\ requests' = requests + 1
    /\ recorded' = recorded + 1
    /\ last_response' = Response("POST /benchmarks/smoke", 200, "ok")
    /\ UNCHANGED <<process, CURRENT_SNAPSHOT, trackerVars, aggVars, latteVars>>

\* DELETE /runs
clear_run_history ==
    /\ process = "backend"
    /\ RUN_HISTORY' = <<>>
    /\ recorded' = 0
    /\ last_response' = Response("DELETE /runs", 200, "Run history cleared")
    /\ UNCHANGED <<process, CURRENT_SNAPSHOT, requests, trackerVars, aggVars, latteVars>>

(***************************************************************************)
(* The latte lab of the backend: POST /lattes (create_latte,               *)
(* create_latte_run, _invoke_llm, evaluate_with_omnibar), GET /lattes and  *)
(* GET /analytics/rollups.  A score is an integer number of 1e-4, so that  *)
(* round(score, 3) is a real rounding.  The replies of the chat model and  *)
(* of the judge are inputs of the request.                                 *)
(***************************************************************************)
\* round(x, 3) on a number of 1e-4: to the nearest multiple of 10, a tie
\* going to the even multiple
Round3(x) == Round6(x)

\* max(0.0, min(1.0, x))
Clamp01(x) == Max(0, Min(10000, x))

\* the prompt taken as it is, without .strip()
StripOmitted(str) == str

\* str.strip() and len(str.split()) on the prompts of the requests
Strip(str) ==
    CASE str = "  " -> ""
      [] str = " one latte " -> "one latte"
      [] OTHER -> str

WordCount(str) ==
    CASE Strip(str) = "" -> 0
      [] Strip(str) = "one latte" -> 2
      [] OTHER -> 1

SystemPromptChoices == {"", "  ", "Be brief"}
UserPromptChoices == {"", "  ", " one latte "}
MockChoices == {None, Some(TRUE), Some(FALSE)}

\* LatteCreateRequest, of one model and one temperature
LatteRequests ==
    [system_prompt : SystemPromptChoices, user_prompt : UserPromptChoices, mock : MockChoices]

SettingsChoices == [mock_mode : BOOLEAN, openai_api_key : BOOLEAN]

\* what chat.invoke does: it raises, or replies; the replies of the requests
\* carry their token_usage
LlmOutcomes == {"raises", "usage"}

\* what objective.eval does: it raises, or returns a FloatEvalResult, an
\* InvalidEvalResult or a result of another type
JudgeRaises(error) == [kind |-> "raises", result |-> None, message |-> Some(error)]
JudgeFloat(result, message) == [kind |-> "float", result |-> Some(result), message |-> message]
JudgeInvalid(message) == [kind |-> "invalid", result |-> None, message |-> Some(message)]
JudgeOther(result, message) == [kind |-> "other", result |-> result, message |-> message]

JudgeOutcomes ==
    { JudgeRaises("rate limit"),
      JudgeFloat(-2500, Some("off topic")), JudgeFloat(12345, None),
      JudgeInvalid("unparseable verdict"),
      JudgeOther(None, None), JudgeOther(Some(50000), Some("five stars")) }

\* the condition of the mock branch of _invoke_llm and of evaluate_with_omnibar
UsesMock(mock_mode, config) == mock_mode \/ ~config.openai_api_key

\* _invoke_llm: the reply, its token usage and whether chat.invoke was called
MockReply(user_prompt) ==
    [text |-> <<"Mock Brew", Strip(user_prompt)>>,
     word_count |-> 14 + WordCount(user_prompt),
     unique_terms |-> 14 + (IF Strip(user_prompt) = "one latte" THEN 2 ELSE 0),
     prompt_tokens |-> None, completion_tokens |-> None, total_tokens |-> None,
     invoked |-> FALSE]

ModelReply(llm) ==
    [text |-> <<"model reply">>,
     word_count |-> 30, unique_terms |-> 25,
     prompt_tokens |-> IF llm = "usage" THEN Some(12) ELSE None,
     completion_tokens |-> Some(30),
     total_tokens |-> IF llm = "usage" THEN Some(42) ELSE Some(30),
     invoked |-> TRUE]

_invoke_llm(req, config, mock_mode, llm) ==
    IF UsesMock(mock_mode, config) THEN MockReply(req.user_prompt) ELSE ModelReply(Val(llm))

ScoreResult(score, note, mode) == [score |-> score, note |-> note, mode |-> mode]

\* 0.4 + 0.6 * (tanh(word_count / 75) * 0.6 + tanh(uniqueness / 60) * 0.4) on
\* the replies of the requests, then clamped and rounded
_mock_score(reply) ==
    LET score == CASE reply.word_count = 14 -> 5214
                   [] reply.word_count = 15 -> 5261
                   [] reply.word_count = 16 -> 5382
                   [] OTHER -> 6021
    IN  ScoreResult(Round3(Clamp01(score)),
                    <<"Mock scoring", reply.word_count, reply.unique_terms>>, "mock")

\* the judge path with the error text left out of the note
JudgeScoreDropsError(judge) ==
    CASE judge.kind = "raises" -> ScoreResult(0, <<"Scoring failed">>, "error")
      [] judge.kind = "float" ->
            ScoreResult(Round3(Clamp01(Val(judge.result))),
                        IF IsNone(judge.message) THEN <<"no commentary">>
                        ELSE <<Val(judge.message)>>, "omnibar")
      [] judge.kind = "invalid" ->
            ScoreResult(Round3(0), <<"invalid evaluation">>, "omnibar")
      [] OTHER ->
            ScoreResult(Round3(IF IsNone(judge.result) THEN 0 ELSE Val(judge.result)),
                        IF IsNone(judge.message) THEN <<"unexpected result type">>
                        ELSE <<Val(judge.message)>>, "omnibar")

\* evaluate_with_omnibar past the mock branch: objective.eval and the three
\* branches on the type of its result
JudgeScore(judge) ==
    CASE judge.kind = "raises" ->
            ScoreResult(0, <<"Scoring failed", Val(judge.message)>>, "error")
      [] judge.kind = "float" ->
            ScoreResult(Round3(Clamp01(Val(judge.result))),
                        IF IsNone(judge.message) THEN <<"no commentary">>
                        ELSE <<Val(judge.message)>>, "omnibar")
      [] judge.kind = "invalid" ->
            ScoreResult(Round3(0), <<"invalid evaluation", Val(judge.message)>>, "omnibar")
      [] OTHER ->
            ScoreResult(Round3(IF IsNone(judge.result) THEN 0 ELSE Val(judge.result)),
                        IF IsNone(judge.message) THEN <<"unexpected result type">>
                        ELSE <<Val(judge.message)>>, "omnibar")

evaluate_with_omnibar(reply, config, judge) ==
    IF UsesMock(config.mock_mode, config) THEN _mock_score(reply) ELSE JudgeScore(Val(judge))

\* settings.mock_mode if payload.mock is None else payload.mock
EffectiveMock(req, config) == IF IsNone(req.mock) THEN config.mock_mode ELSE Val(req.mock)

\* the row create_latte_run adds; the table numbers its rows from 1
LatteRun(req, config, llm, judge) ==
    LET effective_mock == EffectiveMock(req, config)
        effective_settings == [config EXCEPT !.mock_mode = effective_mock]
        reply == _invoke_llm(req, config, effective_mock, llm)
        score_result == evaluate_with_omnibar(reply, effective_settings, judge)
    IN  [id |-> Len(latte_runs) + 1,
         system_prompt |-> req.system_prompt,
         user_prompt |-> req.user_prompt,
         response |-> reply.text,
         score |-> score_result.score,
         baristas_note |-> score_result.note,
         scoring_mode |-> score_result.mode,
         prompt_tokens |-> reply.prompt_tokens,
         completion_tokens |-> reply.completion_tokens,
         total_tokens |-> reply.total_tokens,
         mock_run |-> effective_mock]

\* the replies a request gets: one per call it makes, None for a call not made
NoModelCalls == [llm |-> None, judge |-> None]

LlmChoices(req, config) ==
    IF Strip(req.system_prompt) = "" \/ Strip(req.user_prompt) = ""
       \/ UsesMock(EffectiveMock(req, config), config)
    THEN {None} ELSE { Some(llm) : llm \in LlmOutcomes }

JudgeChoices(llm) ==
    IF llm \in {None, Some("raises")} THEN {None}
    ELSE { Some(judge) : judge \in JudgeOutcomes }

\* POST /lattes: 400 on a blank prompt, 500 when chat.invoke raises, else 201
\* with the row that was added
create_latte ==
    /\ process = "backend"
    /\ \E req \in LatteRequests :
       \E llm \in LlmChoices(req, settings) :
       \E judge \in JudgeChoices(llm) :
          /\ latte_request' = Some(req)
          /\ model_calls' = [llm |-> llm, judge |-> judge]
          /\ IF Strip(req.system_prompt) = ""
             THEN /\ last_response' = Response("POST /lattes", 400, "System prompt is required")
                  /\ UNCHANGED latte_runs
             ELSE IF Strip(req.user_prompt) = ""
             THEN /\ last_response' = Response("POST /lattes", 400, "User prompt is required")
                  /\ UNCHANGED latte_runs
             ELSE IF llm = Some("raises")
             THEN /\ last_response' = Response("POST /lattes", 500, "Internal Server Error")
                  /\ UNCHANGED latte_runs
             ELSE /\ Len(latte_runs) < MaxLattes
                  /\ latte_runs' = Append(latte_runs, LatteRun(req, settings, llm, judge))
                  /\ last_response' =
                        Response("POST /lattes", 201, LatteRun(req, settings, llm, judge))
    /\ UNCHANGED <<process, settings, benchVars, trackerVars, aggVars>>

\* fetch_runs: the rows, the newest first
fetch_runs == [i \in 1..Len(latte_runs) |-> latte_runs[Len(latte_runs) + 1 - i]]

\* GET /lattes
list_lattes ==
    /\ process = "backend"
    /\ last_response' = Response("GET /lattes", 200, fetch_runs)
    /\ UNCHANGED <<process, latteVars, benchVars, trackerVars, aggVars>>

RowsWhere(Test(_)) == Cardinality({ i \in 1..Len(latte_runs) : Test(latte_runs[i]) })

IsAnyRun(run) == TRUE
IsMockRun(run) == run.mock_run
IsSuccessRun(run) == run.score >= 8000

\* get_rollups with every run counted as a mock run
get_rollupsAllMock ==
    [total_runs |-> RowsWhere(IsAnyRun),
     mock_runs |-> RowsWhere(IsAnyRun),
     success_count |-> RowsWhere(IsSuccessRun)]

\* get_rollups: the counts of the rollup
get_rollups ==
    [total_runs |-> RowsWhere(IsAnyRun),
     mock_runs |-> RowsWhere(IsMockRun),
     success_count |-> RowsWhere(IsSuccessRun)]

\* GET /analytics/rollups
analytics_rollups ==
    /\ process = "backend"
    /\ last_response' = Response("GET /analytics/rollups", 200, get_rollups)
    /\ UNCHANGED <<process, latteVars, benchVars, trackerVars, aggVars>>

(***************************************************************************)
(* The suite runs handed to build_api_payload, and what the benchmarker    *)
(* logs into them.                                                         *)
(***************************************************************************)
\* iterations of the benchmark definitions of run_output_evaluation_suite
IterationChoices == {1, 2, 3}

BenchmarkDef(uuid, name, iterations) ==
    [uuid |-> uuid, name |-> name, iterations |-> iterations,
     input_kwargs |-> <<"problem", name>>]

\* get_suite_runs("output"): the output-evaluation run and the translation
\* run, both named "output_evaluation"
SuiteRuns(iterations) ==
    <<[name |-> "output_evaluation",
       initial_input |-> <<BenchmarkDef("b1", "Addition Accuracy", iterations)>>,
       logs |-> <<>>],
      [name |-> "output_evaluation",
       initial_input |-> <<BenchmarkDef("b2", "Spanish Greeting", 1)>>,
       logs |-> <<>>]>>

Metadata(name, key, goal) ==
    [objective_name |-> name, objective_output_key |-> key, objective_goal |-> goal]

Log(benchmark_id, metadata, entries) ==
    [benchmark_id |-> benchmark_id, time_started |-> Some(0), time_ended |-> Some(250),
     metadata |-> metadata, entries |-> entries]

Entry(eval_result, evaluated_output) ==
    [eval_result |-> eval_result, evaluated_output |-> evaluated_output,
     timestamp |-> Some(1)]

\* an output of an agent that reports its call and its usage
CallOutput(call_id, usage, cost_usd, fields) ==
    [call_id |-> call_id, usage |-> usage, cost_usd |-> cost_usd,
     confidence |-> None, fields |-> fields]

\* sequences over S of length at most n
SeqsUpTo(S, n) == UNION { [1..k -> S] : k \in 0..n }

RECURSIVE TotalLogs(_)
TotalLogs(ss) == IF ss = <<>> THEN 0 ELSE Len(ss[1].logs) + TotalLogs(Tail(ss))

StatusMetadata == Metadata(Some("status_is_found"), Some("status"), Some("found"))

\* the entries of the aggregation runs: a pass, and a failure on a known-bad
\* literal that reports the same call as the pass
AggEntries ==
    { Entry(BoolResult(TRUE, None),
            CallOutput(Some("c1"), Some(Usage(Some(100), None, None)), None,
                       {<<"status", PyStr("found")>>})),
      Entry(BoolResult(FALSE, None),
            CallOutput(Some("c1"), Some(Usage(Some(100), None, None)), None,
                       {<<"status", PyStr("not_found")>>})) }

\* <<suite index, log>>: the first marker logs b1 and a benchmark that no
\* suite defines, the second logs b2
AggLogs ==
    { <<1, Log(id, StatusMetadata, entries)>> :
        id \in {"b1", "bx"}, entries \in SeqsUpTo(AggEntries, MaxEntries) }
    \cup
    { <<2, Log("b2", StatusMetadata, entries)>> :
        entries \in SeqsUpTo(AggEntries, MaxEntries) }

\* the benchmarker records one more log
RecordLog(alphabet) ==
    /\ process = "exporter"
    /\ phase = "running"
    /\ TotalLogs(suites) < MaxLogs
    /\ \E pair \in alphabet :
          suites' = [suites EXCEPT ![pair[1]].logs = Append(@, pair[2])]
    /\ UNCHANGED <<process, phase, aggregated, payload, trackerVars, appVars>>

\* generate_benchmark_snapshot: the payload of the suite runs
BuildApiPayload ==
    /\ process = "exporter"
    /\ phase = "running"
    /\ \E readOk \in {TRUE} :
          payload' = Some(build_api_payload(suites, readOk))
    /\ aggregated' = compute_results(suites)
    /\ phase' = "built"
    /\ UNCHANGED <<process, suites, trackerVars, appVars>>

\* generate_benchmark_snapshot called once more on the same suite runs
RebuildApiPayload ==
    /\ process = "exporter"
    /\ phase = "built"
    /\ \E readOk \in {TRUE} :
          payload' = Some(build_api_payload(suites, readOk))
    /\ aggregated' = compute_results(suites)
    /\ phase' = "rebuilt"
    /\ UNCHANGED <<process, suites, trackerVars, appVars>>

\* the entries of the usage runs, all passing: a call with its total, a call
\* with prompt and completion tokens only, a usage block without call_id, a
\* call without usage block, an output with neither, a call whose usage
\* block holds no count
UsageEntries ==
    { Entry(BoolResult(TRUE, None), CallOutput(call_id, usage, None, {<<"status", PyStr("found")>>})) :
        <<call_id, usage>> \in
            { <<Some("c1"), Some(Usage(Some(100), None, None))>>,
              <<Some("c2"), Some(Usage(None, Some(30), Some(50)))>>,
              <<None, Some(Usage(Some(100), None, None))>>,
              <<Some("c3"), None>>,
              <<None, None>>,
              <<Some("c4"), Some(Usage(None, None, None))>> } }

\* the logs of the usage runs, all of benchmark b1: one iteration with at
\* most one entry
UsageLogs ==
    { <<1, Log("b1", StatusMetadata, entries)>> : entries \in SeqsUpTo(UsageEntries, 1) }

\* the values an agent's output holds at the objective's key
ActualValues ==
    { PyNone, PyStr(""), PyDict(0), PyList(0), PyDict(1), PyList(2), PyInt(0), PyInt(20),
      PyStr("error"), PyStr("ERROR"), PyStr("unsupported"), PyStr("Unsupported"),
      PyStr("not_found"), PyStr("Not_Found"), PyStr("found"), PyStr("unknown") }

\* the entries of the failure runs: a failure on every value at the key, a
\* pass, a failure whose output lacks the key, an invalid result with no output
FailureEntries ==
    { Entry(BoolResult(FALSE, None), CallOutput(None, None, None, {<<"status", v>>})) :
        v \in ActualValues }
    \cup
    { Entry(BoolResult(TRUE, None),
            CallOutput(None, None, None, {<<"status", PyStr("found")>>})),
      Entry(BoolResult(FALSE, Some("mismatch")),
            CallOutput(None, None, None, {<<"answer", PyStr("15")>>})),
      Entry(InvalidResult(Some("judge failed")), EmptyOutput) }

\* the entries of the logs of a combined objective in the failure runs
CombinedEntries ==
    { Entry(BoolResult(FALSE, None), CallOutput(None, None, None, {<<"status", PyStr("error")>>})),
      Entry(BoolResult(FALSE, None), CallOutput(None, None, None, {<<"status", PyInt(20)>>})) }

\* the logs of the failure runs, all of benchmark b1: an invocation that
\* raised (no entries), one entry of any kind, several entries of a combined
\* objective, or an entry of an objective without name, key and goal
FailureLogs ==
    { <<1, Log("b1", StatusMetadata, entries)>> : entries \in SeqsUpTo(FailureEntries, 1) }
    \cup
    { <<1, Log("b1", StatusMetadata, entries)>> : entries \in SeqsUpTo(CombinedEntries, MaxEntries) }
    \cup
    { <<1, Log("b1", Metadata(None, None, None),
               <<Entry(BoolResult(FALSE, None),
                       CallOutput(None, None, None, {<<"status", PyStr("found")>>}))>>)>> }

(***************************************************************************)
(* Specifications.                                                         *)
(***************************************************************************)
InitTrackerVars ==
    /\ tracker_file = None
    /\ calls = 0
    /\ last_call = NoCall
    /\ inflight = [c \in Callers |-> IdleCall]
    /\ last_store = None

InitAggVars ==
    /\ phase = "running"
    /\ aggregated = EmptyAggregated
    /\ payload = None

\* the server as config.py starts it without environment: MOCK_MODE defaults
\* to "true" and no OPENAI_API_KEY is set; the table is empty
DefaultSettings == [mock_mode |-> TRUE, openai_api_key |-> FALSE]

InitLatteVars ==
    /\ settings = DefaultSettings
    /\ latte_runs = <<>>
    /\ latte_request = None
    /\ model_calls = NoModelCalls
    /\ last_response = NoResponse

InitAppVars ==
    /\ CURRENT_SNAPSHOT = _generate_suite_payload("output", None, [i \in 1..3 |-> 80])
    /\ RUN_HISTORY = <<>>
    /\ requests = 0
    /\ recorded = 0
    /\ InitLatteVars

\* Either program: the exporter folding the logs of its suite runs into a
\* payload, or the backend serving its mock payloads.
InitExporter ==
    /\ process = "exporter"
    /\ budget = 0
    /\ InitTrackerVars
    /\ \E iterations \in IterationChoices : suites = SuiteRuns(iterations)
    /\ InitAggVars
    /\ InitAppVars

InitBackend ==
    /\ process = "backend"
    /\ budget = 0
    /\ InitTrackerVars
    /\ suites = SuiteRuns(1)
    /\ InitAggVars
    /\ CURRENT_SNAPSHOT \in SuitePayloads("output", None)
    /\ RUN_HISTORY = <<>>
    /\ requests = 0
    /\ recorded = 0
    /\ InitLatteVars

Init == InitExporter \/ InitBackend

Next ==
    \/ RecordLog(AggLogs)
    \/ BuildApiPayload
    \/ run_benchmark_suite

Spec == Init /\ [][Next]_vars

\* The exporter on logs of one benchmark with every kind of failure.
InitFailures ==
    /\ process = "exporter"
    /\ budget = 0
    /\ InitTrackerVars
    /\ suites = SuiteRuns(1)
    /\ InitAggVars
    /\ InitAppVars

NextFailures ==
    \/ RecordLog(FailureLogs)
    \/ BuildApiPayload

SpecFailures == InitFailures /\ [][NextFailures]_vars

\* The exporter building its payload twice from the same suite runs.
NextRebuild ==
    \/ RecordLog(AggLogs)
    \/ BuildApiPayload
    \/ RebuildApiPayload

SpecRebuild == InitExporter /\ [][NextRebuild]_vars

\* The spend tracker under any sequence of _record_usage_cost calls.
InitTracker ==
    /\ process = "exporter"
    /\ budget \in BudgetChoices
    /\ InitTrackerVars
    /\ suites = SuiteRuns(1)
    /\ InitAggVars
    /\ InitAppVars

NextTracker == RecordUsage

SpecTracker == InitTracker /\ [][NextTracker]_vars

\* The latte lab, started with any settings, serving its three endpoints.
InitLattes ==
    /\ process = "backend"
    /\ budget = 0
    /\ InitTrackerVars
    /\ suites = SuiteRuns(1)
    /\ InitAggVars
    /\ CURRENT_SNAPSHOT = _generate_suite_payload("output", None, [i \in 1..3 |-> 80])
    /\ RUN_HISTORY = <<>>
    /\ requests = 0
    /\ recorded = 0
    /\ settings \in SettingsChoices
    /\ latte_runs = <<>>
    /\ latte_request = None
    /\ model_calls = NoModelCalls
    /\ last_response = NoResponse

NextLattes ==
    \/ create_latte
    \/ list_lattes
    \/ analytics_rollups

SpecLattes == InitLattes /\ [][NextLattes]_vars

\* The exporter folding the logs of the usage runs.
NextUsage ==
    \/ RecordLog(UsageLogs)
    \/ BuildApiPayload

SpecUsage == InitExporter /\ [][NextUsage]_vars

\* Either program meeting a failing judge: the exporter folding the logs of
\* the failure runs, an InvalidEvalResult among their entries, or the latte lab.
InitJudge == InitFailures \/ InitLattes

NextJudge ==
    \/ NextFailures
    \/ NextLattes

SpecJudge == InitJudge /\ [][NextJudge]_vars

\* The backend serving runs of every suite and reads of the snapshot.
NextSnapshot ==
    \/ run_benchmark_suite
    \/ get_benchmarks_snapshot

SpecSnapshot == InitBackend /\ [][NextSnapshot]_vars

\* The backend at startup, and after earlier smoke tests filled the run history
\* up to its cap, serving runs of the suites with and without templates, smoke tests and
\* DELETE /runs.
PriorRuns(n) == [i \in 1..n |-> SmokeEntry(1 - i)]

HistorySuiteChoices == {"output", "custom", "math"}

InitHistory ==
    /\ process = "backend"
    /\ budget = 0
    /\ InitTrackerVars
    /\ suites = SuiteRuns(1)
    /\ InitAggVars
    /\ CURRENT_SNAPSHOT \in SuitePayloads("output", None)
    /\ \E n \in {0, MAX_HISTORY - 1, MAX_HISTORY} :
          /\ RUN_HISTORY = PriorRuns(n)
          /\ recorded = n
    /\ InitLatteVars
    /\ requests = 0

NextHistory ==
    \/ RunBenchmarkSuite(HistorySuiteChoices)
    \/ run_smoke_test
    \/ clear_run_history

SpecHistory == InitHistory /\ [][NextHistory]_vars

\* The spend tracker on a file that earlier runs filled up to the event cap:
\* n events of 10 units each, the newest first.
PriorEvents(n) == [i \in 1..n |-> [timestamp |-> 1 - i, tokens |-> None, cost_usd |-> 10]]

PriorTracker(n) ==
    [total_spend_usd |-> 10 * n, events |-> PriorEvents(n), budget_usd |-> budget,
     remaining_budget_usd |-> RemainingBudget(10 * n)]

InitTrackerFull ==
    /\ process = "exporter"
    /\ budget \in BudgetChoices
    /\ \E n \in {SPEND_EVENT_LIMIT - 1, SPEND_EVENT_LIMIT} :
          tracker_file = Some(PriorTracker(n))
    /\ calls = 0
    /\ last_call = NoCall
    /\ inflight = [c \in Callers |-> IdleCall]
    /\ last_store = None
    /\ suites = SuiteRuns(1)
    /\ InitAggVars
    /\ InitAppVars

SpecTrackerFull == InitTrackerFull /\ [][NextTracker]_vars

\* The spend tracker under two callers whose calls interleave.
NextRace == \E c \in Callers : LoadUsage(c) \/ StoreUsage(c)

SpecRace == InitTracker /\ [][NextRace]_vars

(***************************************************************************)
(* What the loggers hold, as the claims speak of it.  The first marker     *)
(* logs b1 (and an undefined benchmark), the second logs b2, so every log  *)
(* of a defined benchmark is folded.                                       *)
(***************************************************************************)
RECURSIVE SelectLogs(_, _)
SelectLogs(logs, id) ==
    IF logs = <<>> THEN <<>>
    ELSE (IF logs[1].benchmark_id = id THEN <<logs[1]>> ELSE <<>>) \o SelectLogs(Tail(logs), id)

RECURSIVE LogsOfSuites(_, _)
LogsOfSuites(ss, id) ==
    IF ss = <<>> THEN <<>> ELSE SelectLogs(ss[1].logs, id) \o LogsOfSuites(Tail(ss), id)

\* the items of a log: its entries, or the log itself when it has none
ItemsOfLog(log) ==
    IF log.entries = <<>> THEN <<[log |-> log, entry |-> None]>>
    ELSE [k \in 1..Len(log.entries) |-> [log |-> log, entry |-> Some(log.entries[k])]]

RECURSIVE ItemsOfLogs(_)
ItemsOfLogs(logs) ==
    IF logs = <<>> THEN <<>> ELSE ItemsOfLog(logs[1]) \o ItemsOfLogs(Tail(logs))

\* the items recorded for benchmark id, in the order they are folded
ItemsOf(id) == ItemsOfLogs(LogsOfSuites(suites, id))

ItemIsEntry(item) == ~IsNone(item.entry)
ItemPasses(item) == ItemIsEntry(item) /\ ResultTruth(Val(item.entry).eval_result)
ItemFails(item) == ~ItemPasses(item)

\* the value the evaluated output holds at the objective's output key
ActualOf(item) ==
    LET key == item.log.metadata.objective_output_key
        fields == Val(item.entry).evaluated_output.fields
    IN  IF IsNone(key) THEN PyNone
        ELSE IF \E p \in fields : p[1] = Val(key)
             THEN (CHOOSE p \in fields : p[1] = Val(key))[2]
        ELSE PyNone

Built == phase = "built"
Benchmarks == Val(payload).benchmarks
Indices(q) == 1..Len(q)

(***************************************************************************)
(* C1: in the payload of build_api_payload a benchmark with a failing      *)
(* iteration has status "failed" and successRate 0, and a benchmark with   *)
(* none has status "success" and successRate 1 (100 hundredths), whatever  *)
(* its iterations and the mix of entries folded.                           *)
(***************************************************************************)
C1_StatusAllOrNothing ==
    Built =>
        \A i \in Indices(Benchmarks) :
            LET b == Benchmarks[i]
                items == ItemsOf(b.id)
            IN  IF \E k \in Indices(items) : ItemFails(items[k])
                THEN b.status = "failed" /\ b.successRate = 0
                ELSE b.status = "success" /\ b.successRate = 100

\* b1, of three iterations, failed on a log that mixes a pass and a failure,
\* and b2 passed
C1_Witness ==
    /\ Built
    /\ \E i, j \in Indices(Benchmarks) :
          /\ Benchmarks[i].iterations = 3
          /\ Benchmarks[i].status = "failed"
          /\ \E k, l \in Indices(ItemsOf(Benchmarks[i].id)) :
                /\ ItemPasses(ItemsOf(Benchmarks[i].id)[k])
                /\ ItemFails(ItemsOf(Benchmarks[i].id)[l])
          /\ Benchmarks[j].status = "success"
          /\ ItemsOf(Benchmarks[j].id) # <<>>

(***************************************************************************)
(* C2: a call_id seen in several entries of a benchmark adds its tokens    *)
(* and cost once; the later entries add no token and no cost sample.  So   *)
(* a benchmark whose entries all report their call has as many token       *)
(* samples, and as many cost samples, as distinct calls.                   *)
(***************************************************************************)
C2_CallCountedOnce ==
    Built =>
        \A id \in AggKeys(aggregated) :
            LET st == aggregated.stats[id]
                items == ItemsOf(id)
            IN  (\A k \in Indices(items) :
                    ItemIsEntry(items[k])
                        => ~IsNone(Val(items[k].entry).evaluated_output.call_id))
                => /\ Len(st.token_counts) = Cardinality(st.usage_call_ids)
                   /\ Len(st.costs) = Cardinality(st.usage_call_ids)

(***************************************************************************)
(* C3: in every suite payload summary.total = summary.success +            *)
(* summary.failed and summary.total is the number of benchmarks, in the    *)
(* payload of build_api_payload and in the one POST /benchmarks/run        *)
(* serves.                                                                 *)
(***************************************************************************)
SummaryAddsUp(p) ==
    /\ p.summary.total = p.summary.success + p.summary.failed
    /\ p.summary.total = Len(p.benchmarks)

C3_SummaryTotals ==
    /\ Built => SummaryAddsUp(Val(payload))
    /\ process = "backend" => SummaryAddsUp(CURRENT_SNAPSHOT)

\* a payload that counts a success and a failure
C3_Witness ==
    /\ Built
    /\ Val(payload).summary.success >= 1
    /\ Val(payload).summary.failed >= 1

(***************************************************************************)
(* C4: after compute_results the history of a benchmark has one record     *)
(* per entry of each of its logs and one synthetic record per log without  *)
(* entries, in order: none dropped, none recorded twice.                   *)
(***************************************************************************)
C4_HistoryCoversItems ==
    Built =>
        \A id \in AggKeys(aggregated) :
            LET h == aggregated.stats[id].history
                items == ItemsOf(id)
            IN  /\ Len(h) = Len(items)
                /\ \A k \in Indices(h) :
                      /\ h[k].result = ItemPasses(items[k])
                      /\ (h[k].failureCategory = Some("infrastructure"))
                            <=> ~ItemIsEntry(items[k])

\* three items: a log without entries and a log of a pass and a failure
C4_Witness ==
    /\ Built
    /\ \E id \in AggKeys(aggregated) :
          LET items == ItemsOf(id) IN
          /\ Len(items) = 3
          /\ \E k, l, m \in Indices(items) :
                /\ ~ItemIsEntry(items[k])
                /\ ItemPasses(items[l])
                /\ ItemIsEntry(items[m]) /\ ItemFails(items[m])
          /\ Len(aggregated.stats[id].history) = 3

(***************************************************************************)
(* C5: whenever a failure is recorded its category is one of format,       *)
(* unsupported, logic, infrastructure and never unset: in each failing     *)
(* history record, in latestFailure and in the failure insight, in the     *)
(* payload of build_api_payload and in the one POST /benchmarks/run        *)
(* serves.                                                                 *)
(***************************************************************************)
FailureCategories == {"format", "unsupported", "logic", "infrastructure"}
SomeCategory == { Some(c) : c \in FailureCategories }

C5_CategoryAlwaysSet ==
    /\ Built =>
          /\ \A i \in Indices(Benchmarks) :
                /\ \A k \in Indices(Benchmarks[i].history) :
                      ~Benchmarks[i].history[k].result
                          => Benchmarks[i].history[k].failureCategory \in SomeCategory
                /\ ~IsNone(Benchmarks[i].latestFailure)
                      => Val(Benchmarks[i].latestFailure).category \in FailureCategories
          /\ \A j \in Indices(Val(payload).failureInsights) :
                Val(payload).failureInsights[j].failureCategory \in SomeCategory
    /\ (process = "backend" /\ RUN_HISTORY # <<>>) =>
          /\ \A i \in Indices(CURRENT_SNAPSHOT.benchmarks) :
                ~IsNone(CURRENT_SNAPSHOT.benchmarks[i].latestFailure)
                    => Val(CURRENT_SNAPSHOT.benchmarks[i].latestFailure).category
                          \in FailureCategories
          /\ \A j \in Indices(CURRENT_SNAPSHOT.failureInsights) :
                CURRENT_SNAPSHOT.failureInsights[j].failureCategory \in SomeCategory

(***************************************************************************)
(* C6: a failing entry is classified by its actual value, the output's     *)
(* field at the objective's key: format for None, "" and an empty          *)
(* collection (also when the key is absent), unsupported for "error",      *)
(* "unsupported", "not_found" in any case, logic for the rest; an actual   *)
(* "not_found" against an expected "found" gives status failed and         *)
(* latestFailure.category "unsupported".                                   *)
(***************************************************************************)
ClaimedCategory(v) ==
    IF v \in {PyNone, PyStr(""), PyDict(0), PyList(0)} THEN "format"
    ELSE IF v \in {PyStr("error"), PyStr("ERROR"), PyStr("unsupported"),
                   PyStr("Unsupported"), PyStr("not_found"), PyStr("Not_Found")}
         THEN "unsupported"
    ELSE "logic"

ItemIsFailingEntry(item) == ItemIsEntry(item) /\ ItemFails(item)

FailingItems(items) == { k \in Indices(items) : ItemFails(items[k]) }
FailingEntries(items) == { k \in Indices(items) : ItemIsFailingEntry(items[k]) }
Last(S) == CHOOSE k \in S : \A l \in S : l <= k

C8_InvocationFailureRecorded ==
    Built =>
        \A i \in Indices(Benchmarks) :
            LET b == Benchmarks[i]
                items == ItemsOf(b.id)
                h == b.history
            IN  /\ Len(h) = Len(items)
                /\ \A k \in Indices(items) :
                      ~ItemIsEntry(items[k])
                          => /\ h[k].failureCategory = Some("infrastructure")
                             /\ h[k].result = FALSE
                             /\ b.status = "failed"
                /\ Cardinality({ k \in Indices(h) : h[k].failureCategory = Some("infrastructure") })
                      = Cardinality({ k \in Indices(items) : ~ItemIsEntry(items[k]) })

\* a log without entries, then a log with a passing entry, both folded
C8_Witness ==
    /\ Built
    /\ \E i \in Indices(Benchmarks) :
          LET items == ItemsOf(Benchmarks[i].id) IN
          /\ Len(items) = 2
          /\ ~ItemIsEntry(items[1])
          /\ ItemPasses(items[2])
          /\ Benchmarks[i].history[2].result
          /\ Benchmarks[i].status = "failed"

(***************************************************************************)
(* C9: a budget warning fires once per threshold crossing (80% and 100%    *)
(* of a positive budget): a call that loads a total already at or above a  *)
(* threshold emits no further warning for it.                              *)
(***************************************************************************)
ThresholdReached(level, total) ==
    IF level = "100" THEN total >= budget ELSE 10 * total >= 8 * budget

C9_WarningOncePerCrossing ==
    budget > 0 =>
        \A level \in last_call.warned : ~ThresholdReached(level, last_call.total_loaded)

(***************************************************************************)
(* C10: total_spend_usd never decreases: no _record_usage_cost call,       *)
(* whatever its arguments and whatever the read of the tracker gives,      *)
(* leaves the persisted total lower than before.                           *)
(***************************************************************************)
C10_TotalNeverDecreases ==
    last_call.total_after >= last_call.total_before

(***************************************************************************)
(* C11: _record_usage_cost stores before it returns: whenever a call       *)
(* returns a spend snapshot, the tracker file already holds the total the  *)
(* snapshot reports and, first in its events, the event of that call.      *)
(***************************************************************************)
C11_SnapshotIsPersisted ==
    ~IsNone(last_call.returned) =>
        /\ ~IsNone(tracker_file)
        /\ Round6(Val(tracker_file).total_spend_usd) = Val(last_call.returned).total_spend_usd
        /\ Val(tracker_file).events # <<>>
        /\ Val(tracker_file).events[1].timestamp = calls

(***************************************************************************)
(* C12: a call with no token count and no cost override returns nothing    *)
(* and changes nothing: the tracker file is the same before and after, no  *)
(* event is added and no warning is logged.                                *)
(***************************************************************************)
C12_NoCostNoChange ==
    [][(/\ calls' = calls + 1
        /\ IsNone(last_call'.total_tokens)
        /\ IsNone(last_call'.cost_override_usd))
          => /\ tracker_file' = tracker_file
             /\ IsNone(last_call'.returned)
             /\ last_call'.warned = {}]_vars

\* such a call made when the budget is already spent and the file holds events
C12_Witness ==
    /\ calls >= 2
    /\ IsNone(last_call.total_tokens) /\ IsNone(last_call.cost_override_usd)
    /\ IsNone(last_call.returned)
    /\ budget > 0
    /\ ~IsNone(tracker_file)
    /\ Val(tracker_file).total_spend_usd >= budget
    /\ Val(tracker_file).events # <<>>

(***************************************************************************)
(* C13: the tracker file is read-modify-written without a lock.  When      *)
(* calls interleave, the file is exactly what the call that stored last    *)
(* wrote: the tracker that call had loaded, plus its own cost and event.   *)
(* What another call stored in between is overwritten.                     *)
(***************************************************************************)
C13_LastWriterWins ==
    ~IsNone(last_store) =>
        LET call == Val(last_store) IN
        /\ ~IsNone(tracker_file)
        /\ Val(tracker_file).total_spend_usd = call.loaded.total_spend_usd + call.cost
        /\ Val(tracker_file).events = <<Val(call.event)>> \o call.loaded.events
        /\ Val(tracker_file).budget_usd = budget

\* both callers read and stored with success, the second loading before the
\* first stored: the file holds neither the event nor the cost of the first
C13_Witness ==
    /\ ~IsNone(last_store)
    /\ Val(last_store).read_ok
    /\ \E c \in Callers :
          /\ inflight[c].pc = "done" /\ inflight[c].stored /\ inflight[c].read_ok
          /\ inflight[c].cost > 0
          /\ inflight[c].event # Val(last_store).event
          /\ \A k \in Indices(Val(tracker_file).events) :
                Val(tracker_file).events[k] # Val(inflight[c].event)
          /\ Val(tracker_file).total_spend_usd = Val(last_store).cost

(***************************************************************************)
(* C14: the tracker keeps the most recent SPEND_EVENT_LIMIT events, the    *)
(* newest first: every call that stores puts its event first, keeps the    *)
(* events the file held after it, and drops only the oldest ones beyond    *)
(* the cap.                                                                *)
(***************************************************************************)
PersistedEvents(file) == IF IsNone(file) THEN <<>> ELSE Val(file).events

FirstN(q, n) == SubSeq(q, 1, Min(Len(q), n))

C14_EventsAreMostRecent ==
    [][(calls' = calls + 1 /\ last_call'.stored)
          => LET events == PersistedEvents(tracker_file') IN
             /\ events # <<>>
             /\ Len(events) <= SPEND_EVENT_LIMIT
             /\ events[1].timestamp = calls'
             /\ events = FirstN(<<events[1]>> \o PersistedEvents(tracker_file),
                                SPEND_EVENT_LIMIT)]_vars

NotSuccess(benchmark) == benchmark.status # "success"
FailedBenchmarks == SelectSeq(Benchmarks, NotSuccess)
CoverageNote == <<"Agent requires regression coverage for this flow.">>
DefaultIssue == <<"Mismatch between expected and actual outputs.">>
DefaultSummary == <<"Failures in this scenario affect reliability scorecards.">>

InsightsMatchFailures ==
    /\ Len(Val(payload).failureInsights) = Len(FailedBenchmarks)
    /\ Len(Val(payload).recommendations) = Len(FailedBenchmarks)
    /\ Val(payload).summary.failed = Len(FailedBenchmarks)
    /\ \A j \in Indices(FailedBenchmarks) :
          /\ Val(payload).failureInsights[j].benchmarkId = FailedBenchmarks[j].id
          /\ Val(payload).recommendations[j].id = <<"rec", FailedBenchmarks[j].id>>
          /\ Len(Val(payload).failureInsights[j].topIssues) = 2
          /\ Val(payload).failureInsights[j].topIssues[2] = CoverageNote

C18_HistoryIsMostRecent ==
    /\ Len(RUN_HISTORY) = Min(recorded, MAX_HISTORY)
    /\ \A i \in Indices(RUN_HISTORY) : RUN_HISTORY[i].id = requests - i + 1

\* a request on a full history: the new entry is first and the oldest of the
\* thirty entries held before is gone
C18_Witness ==
    /\ recorded = MAX_HISTORY + 1
    /\ Len(RUN_HISTORY) = MAX_HISTORY
    /\ RUN_HISTORY[1].id = 1
    /\ RUN_HISTORY[1].suite = "output"
    /\ RUN_HISTORY[MAX_HISTORY].id = 2 - MAX_HISTORY

(***************************************************************************)
(* C19: each POST /benchmarks/run records exactly one run-history entry,   *)
(* whose summary counts are those of the payload the request returns and   *)
(* whose status is "success" when summary.failed is zero and               *)
(* "needs_attention" otherwise.                                            *)
(***************************************************************************)
C19_RunRecordsItsSummary ==
    [][(requests' = requests + 1 /\ RUN_HISTORY'[1].suite # "smoke")
          => LET entry == RUN_HISTORY'[1]
                 returned == CURRENT_SNAPSHOT'
             IN  /\ RUN_HISTORY' = FirstN(<<entry>> \o RUN_HISTORY, MAX_HISTORY)
                 /\ entry.id = requests'
                 /\ \A i \in Indices(RUN_HISTORY) : RUN_HISTORY[i].id # entry.id
                 /\ entry.summary = returned.summary
                 /\ entry.benchmarkCount = returned.summary.total
                 /\ entry.success = returned.summary.success
                 /\ entry.failed = returned.summary.failed
                 /\ entry.status = (IF returned.summary.failed = 0 THEN "success"
                                    ELSE "needs_attention")]_vars

\* a run with a failed benchmark, recorded as needing attention
C19_Witness ==
    /\ requests >= 1
    /\ RUN_HISTORY # <<>>
    /\ RUN_HISTORY[1].suite = "output"
    /\ RUN_HISTORY[1].id = requests
    /\ RUN_HISTORY[1].summary = CURRENT_SNAPSHOT.summary
    /\ CURRENT_SNAPSHOT.summary.failed > 0
    /\ RUN_HISTORY[1].status = "needs_attention"

(***************************************************************************)
(* C20: POST /benchmarks/run runs the suite it names, for each of          *)
(* "output", "custom", "crisis", "math", "coding" and "all": the payload   *)
(* returned holds the benchmarks of that suite, a non-empty list, and for  *)
(* "all" the benchmarks of every other named suite.                        *)
(***************************************************************************)
NamedSuites == {"output", "custom", "crisis", "math", "coding", "all"}

BenchmarkIds(p) == { p.benchmarks[i].id : i \in Indices(p.benchmarks) }

C20_NamedSuiteIsRun ==
    (process = "backend" /\ RUN_HISTORY # <<>> /\ RUN_HISTORY[1].suite \in NamedSuites) =>
        /\ CURRENT_SNAPSHOT.benchmarks # <<>>
        /\ \A i \in Indices(CURRENT_SNAPSHOT.benchmarks) :
              RUN_HISTORY[1].suite \in {"all", CURRENT_SNAPSHOT.benchmarks[i].suite}
        /\ RUN_HISTORY[1].suite = "all" =>
              {"output", "custom", "crisis"}
                  \subseteq { CURRENT_SNAPSHOT.benchmarks[i].suite :
                                i \in Indices(CURRENT_SNAPSHOT.benchmarks) }

(***************************************************************************)
(* C21: GET /benchmarks answers with the benchmark list of the stored      *)
(* snapshot, which is the payload of the latest POST /benchmarks/run       *)
(* whatever suite that request named, and reading does not replace the     *)
(* stored snapshot.                                                        *)
(***************************************************************************)
C21_ReadServesStoredSnapshot ==
    [][(/\ last_response'.endpoint = "GET /benchmarks"
        /\ last_response.endpoint # "GET /benchmarks")
          => /\ last_response'.body = CURRENT_SNAPSHOT.benchmarks
             /\ CURRENT_SNAPSHOT' = CURRENT_SNAPSHOT]_vars

(***************************************************************************)
(* C22: a failure of the judge is data, not an exception.  When            *)
(* objective.eval raises or returns an Invalid result, POST /lattes still  *)
(* answers 201 with a run of score 0 whose note ends with the error text;  *)
(* and an entry with an Invalid result folded by compute_results makes     *)
(* the benchmark failed, gets a history record of result false, and, when  *)
(* it is the last failing entry, gives latestFailure its error text as     *)
(* reason.                                                                 *)
(***************************************************************************)
JudgeFailed == 
    /\ ~IsNone(model_calls.judge)
    /\ Val(model_calls.judge).kind \in {"raises", "invalid"}

ItemIsInvalid(item) ==
    ItemIsEntry(item) /\ Val(item.entry).eval_result.kind = "invalid"

C22_JudgeFailureIsData ==
    /\ (process = "backend" /\ last_response.endpoint = "POST /lattes" /\ JudgeFailed) =>
          /\ last_response.status = 201
          /\ last_response.body = latte_runs[Len(latte_runs)]
          /\ last_response.body.score = 0
          /\ last_response.body.baristas_note[Len(last_response.body.baristas_note)]
                = Val(Val(model_calls.judge).message)
    /\ (process = "exporter" /\ Built) =>
          LET items == ItemsOf("b1")
              st == aggregated.stats["b1"]
          IN  \A k \in Indices(items) :
                 ItemIsInvalid(items[k]) =>
                    /\ Benchmarks[1].status = "failed"
                    /\ ~st.history[k].result
                    /\ k = Last(FailingEntries(items)) =>
                          /\ Benchmarks[1].latestFailure = st.latest_failure
                          /\ Val(st.latest_failure).reason
                                = <<"message", Val(Val(items[k].entry).eval_result.message)>>

\* one run scored after the judge raised and one after it returned Invalid
C22_Witness ==
    /\ process = "backend"
    /\ Len(latte_runs) = 2
    /\ latte_runs[1].scoring_mode = "error" /\ latte_runs[1].score = 0
    /\ latte_runs[2].baristas_note = <<"invalid evaluation", "unparseable verdict">>
    /\ last_response.endpoint = "POST /lattes" /\ last_response.status = 201
    /\ JudgeFailed

\* an Invalid entry folded after another failing entry: the reason built is its message
C22_InvalidFolded ==
    /\ process = "exporter" /\ Built
    /\ Len(ItemsOf("b1")) = 2
    /\ ItemIsFailingEntry(ItemsOf("b1")[1]) /\ ItemIsInvalid(ItemsOf("b1")[2])
    /\ Val(aggregated.stats["b1"].latest_failure).reason = <<"message", "judge failed">>

(***************************************************************************)
(* C23: the table holds exactly the runs the successful POST /lattes       *)
(* requests created.  Each 201 adds one row, which is the run returned,    *)
(* under an id no earlier row has; no other request adds a row; no step    *)
(* changes or removes a row; GET /lattes lists the rows of the table, each *)
(* once; GET /analytics/rollups reports total_runs as their number and     *)
(* mock_runs as the number of them whose mock_run is true.                 *)
(***************************************************************************)
RunIds(runs) == { runs[i].id : i \in Indices(runs) }
RunSet(runs) == { runs[i] : i \in Indices(runs) }

C23_RunsAreKept ==
    [][/\ Len(latte_runs') >= Len(latte_runs)
       /\ \A i \in Indices(latte_runs) : latte_runs'[i] = latte_runs[i]
       /\ IF last_response'.endpoint = "POST /lattes" /\ last_response'.status = 201
          THEN /\ Len(latte_runs') = Len(latte_runs) + 1
               /\ last_response'.body = latte_runs'[Len(latte_runs')]
               /\ last_response'.body.id \notin RunIds(latte_runs)
          ELSE latte_runs' = latte_runs
       /\ last_response'.endpoint = "GET /lattes" =>
             /\ Len(last_response'.body) = Len(latte_runs')
             /\ RunSet(last_response'.body) = RunSet(latte_runs')
             /\ Cardinality(RunIds(last_response'.body)) = Len(latte_runs')
       /\ last_response'.endpoint = "GET /analytics/rollups" =>
             /\ last_response'.body.total_runs = Len(latte_runs')
             /\ last_response'.body.mock_runs
                   = Cardinality({ i \in Indices(latte_runs') : latte_runs'[i].mock_run })]_vars

\* a mock run and a run of the real model were created, and the rollup counts them
C23_Witness ==
    /\ Len(latte_runs) = 2
    /\ latte_runs[1].mock_run /\ ~latte_runs[2].mock_run
    /\ latte_runs[1].id = 1 /\ latte_runs[2].id = 2
    /\ last_response.endpoint = "GET /analytics/rollups"
    /\ last_response.body.total_runs = 2 /\ last_response.body.mock_runs = 1

(***************************************************************************)
(* C24: the score of every run POST /lattes stored lies between 0 and 1    *)
(* (0 and 10000 of 1e-4), whatever the evaluation was: mock scoring, a     *)
(* Float result of any size, an Invalid result, a raised exception or a    *)
(* result of another type.                                                 *)
(***************************************************************************)
C24_ScoreInUnitRange ==
    \A i \in Indices(latte_runs) :
        latte_runs[i].score >= 0 /\ latte_runs[i].score <= 10000

\* the same, for the outcomes whose result the code clamps or replaces
C24_ClampedOutcomesInRange ==
    \A i \in Indices(latte_runs) :
        (latte_runs[i].scoring_mode \in {"mock", "error"}
         \/ latte_runs[i].baristas_note \in
               {<<"off topic">>, <<"no commentary">>,
                <<"invalid evaluation", "unparseable verdict">>})
            => latte_runs[i].score >= 0 /\ latte_runs[i].score <= 10000

(***************************************************************************)
(* C25: the token sample of an entry is the total_tokens of its usage      *)
(* block, else prompt_tokens + completion_tokens, and the proxy of one     *)
(* token per four characters of the serialized output only when the        *)
(* output has no usage block at all.  So every token sample of a           *)
(* benchmark is the count of the usage block of one of its entries, or     *)
(* the proxy of an entry whose output carries no usage block.              *)
(***************************************************************************)
OutputOf(item) == Val(item.entry).evaluated_output
Proxy(out) == Max(JsonLen(out) \div 4, 1)

UsageSamples(items) ==
    { Val(UsageTokens(OutputOf(items[k]).usage)) :
        k \in { l \in Indices(items) :
                  ItemIsEntry(items[l]) /\ ~IsNone(UsageTokens(OutputOf(items[l]).usage)) } }

ProxySamples(items) ==
    { Proxy(OutputOf(items[k])) :
        k \in { l \in Indices(items) :
                  /\ ItemIsEntry(items[l])
                  /\ OutputTruthy(OutputOf(items[l]))
                  /\ IsNone(OutputOf(items[l]).usage) } }

C25_ProxyOnlyWithoutUsage ==
    Built =>
        LET items == ItemsOf("b1")
            st == aggregated.stats["b1"]
        IN  \A j \in Indices(st.token_counts) :
               st.token_counts[j] \in UsageSamples(items) \cup ProxySamples(items)

\* the part that holds: an entry that reports a call not seen before adds
\* the count of its usage block, the total or prompt + completion
C25_NewCallAddsItsUsage ==
    Built =>
        LET items == ItemsOf("b1")
            st == aggregated.stats["b1"]
        IN  (Len(items) = 1 /\ ItemIsEntry(items[1])
             /\ ~IsNone(OutputOf(items[1]).call_id)
             /\ ~IsNone(UsageTokens(OutputOf(items[1]).usage)))
                => st.token_counts = <<Val(UsageTokens(OutputOf(items[1]).usage))>>

(***************************************************************************)
(* C26: a log without entries touches nothing but the failure flag, the    *)
(* latency samples and the history.  The accumulator of a benchmark is     *)
(* the one the same logs give with the entry-less logs taken out, except   *)
(* that the flag is set, and that each entry-less log added one latency    *)
(* sample and one history record: token samples, cost samples, confidence  *)
(* samples, seen call ids, error flags and latestFailure are the same.     *)
(***************************************************************************)
HasEntries(log) == log.entries # <<>>
IsEntryRecord(record) == record.failureCategory # Some("infrastructure")

SuitesWithEntries ==
    [i \in DOMAIN suites |-> [suites[i] EXCEPT !.logs = SelectSeq(@, HasEntries)]]

EntrylessLogs(id) ==
    { k \in Indices(LogsOfSuites(suites, id)) : ~HasEntries(LogsOfSuites(suites, id)[k]) }

C26_EntrylessLogFrame ==
    Built =>
        LET without == compute_results(SuitesWithEntries)
        IN  \A id \in AggKeys(aggregated) :
               LET st == aggregated.stats[id]
                   ref == without.stats[id]
                   n == Cardinality(EntrylessLogs(id))
               IN  /\ st.token_counts = ref.token_counts
                   /\ st.costs = ref.costs
                   /\ st.confidences = ref.confidences
                   /\ st.usage_call_ids = ref.usage_call_ids
                   /\ st.error_flags = ref.error_flags
                   /\ st.latest_failure = ref.latest_failure
                   /\ Len(st.latencies) = Len(ref.latencies) + n
                   /\ Len(st.history) = Len(ref.history) + n
                   /\ SelectSeq(st.history, IsEntryRecord) = ref.history
                   /\ st.failure_flag = (ref.failure_flag \/ n > 0)

\* a failing entry that reported its call, then a log without entries
C26_Witness ==
    /\ Built
    /\ Len(LogsOfSuites(suites, "b1")) = 2
    /\ EntrylessLogs("b1") = {2}
    /\ aggregated.stats["b1"].token_counts # <<>>
    /\ aggregated.stats["b1"].usage_call_ids = {"c1"}
    /\ ~IsNone(aggregated.stats["b1"].latest_failure)
    /\ Len(aggregated.stats["b1"].history) = Len(LogsOfSuites(suites, "b1")[1].entries) + 1

(***************************************************************************)
(* C27: in the payload of build_api_payload a benchmark has status         *)
(* "failed" exactly when its history holds a record with result false,     *)
(* which is exactly when its failure flag is set; a benchmark with a       *)
(* latestFailure or with error flags has status "failed".                  *)
(***************************************************************************)
HasFailingRecord(history) == \E k \in Indices(history) : ~history[k].result

C27_FailedIffFailingRecord ==
    Built =>
        \A i \in Indices(Benchmarks) :
            LET b == Benchmarks[i]
                st == aggregated.stats[b.id]
            IN  /\ b.status \in {"success", "failed"}
                /\ (b.status = "failed") = HasFailingRecord(b.history)
                /\ st.failure_flag = HasFailingRecord(st.history)
                /\ (~IsNone(b.latestFailure) \/ b.errorFlags # <<>>) => b.status = "failed"

\* one benchmark failed on an entry, the other passed all of its entries
C27_Witness ==
    /\ Built
    /\ Len(Benchmarks) = 2
    /\ Benchmarks[1].status = "failed" /\ ~IsNone(Benchmarks[1].latestFailure)
    /\ HasFailingRecord(Benchmarks[1].history)
    /\ Benchmarks[2].status = "success" /\ Benchmarks[2].history # <<>>
    /\ ~HasFailingRecord(Benchmarks[2].history)

(***************************************************************************)
(* C28: every benchmark definition of every suite run appears exactly      *)
(* once in payload.benchmarks and nothing else does; a definition without  *)
(* any log has status "success", successRate 1 (100 hundredths) and an     *)
(* empty history; the logs of a benchmark id that no definition has are    *)
(* ignored: the accumulators are the ones the other logs give alone.       *)
(***************************************************************************)
DefinedIds ==
    UNION { { suites[i].initial_input[j].uuid : j \in DOMAIN suites[i].initial_input } :
              i \in DOMAIN suites }

IsDefinedLog(log) == log.benchmark_id \in DefinedIds

SuitesOfDefinedLogs ==
    [i \in DOMAIN suites |-> [suites[i] EXCEPT !.logs = SelectSeq(@, IsDefinedLog)]]

C28_DefinitionsAllReported ==
    Built =>
        /\ \A id \in DefinedIds :
              Cardinality({ i \in Indices(Benchmarks) : Benchmarks[i].id = id }) = 1
        /\ Len(Benchmarks) = Cardinality(DefinedIds)
        /\ \A i \in Indices(Benchmarks) :
              LogsOfSuites(suites, Benchmarks[i].id) = <<>> =>
                 /\ Benchmarks[i].status = "success"
                 /\ Benchmarks[i].successRate = 100
                 /\ Benchmarks[i].history = <<>>
        /\ aggregated = compute_results(SuitesOfDefinedLogs)

\* the only logs recorded are of a benchmark that no suite defines
C28_Witness ==
    /\ Built
    /\ TotalLogs(suites) = 2
    /\ \A k \in Indices(suites[1].logs) :
          suites[1].logs[k].benchmark_id = "bx" /\ suites[1].logs[k].entries # <<>>
    /\ Len(Benchmarks) = 2
    /\ Benchmarks[1].id = "b1" /\ Benchmarks[1].history = <<>>
    /\ Benchmarks[1].status = "success"

(***************************************************************************)
(* C29: the mock_run flag of a stored run tells how the run was made: it   *)
(* is true exactly when the response is the mock reply and the score the   *)
(* mock score, and false only if the chat model was called, for every      *)
(* mock override of the request, mock_mode of the settings and presence    *)
(* of an API key.                                                          *)
(***************************************************************************)
MadeByMock(run) == run.response[1] = "Mock Brew" /\ run.scoring_mode = "mock"

C29_MockFlagTellsPath ==
    /\ \A i \in Indices(latte_runs) : latte_runs[i].mock_run = MadeByMock(latte_runs[i])
    /\ (last_response.endpoint = "POST /lattes" /\ last_response.status = 201
        /\ ~last_response.body.mock_run) => ~IsNone(model_calls.llm)

\* the part that holds: a run flagged as mock was made by the mock path, and
\* with an API key the flag tells the path
C29_MockFlagImpliesMockPath ==
    \A i \in Indices(latte_runs) :
        /\ latte_runs[i].mock_run => MadeByMock(latte_runs[i])
        /\ settings.openai_api_key => latte_runs[i].mock_run = MadeByMock(latte_runs[i])

(***************************************************************************)
(* C30: POST /lattes with a system prompt or a user prompt that is empty   *)
(* or only whitespace is answered 400; no model and no judge is called     *)
(* and no run is created, so the table, the list of GET /lattes and the    *)
(* counts of the rollup are what they were before the request.             *)
(***************************************************************************)
BlankPrompts == {"", "  "}

IsBlankRequest(req) ==
    req.system_prompt \in BlankPrompts \/ req.user_prompt \in BlankPrompts

C30_BlankPromptRejected ==
    [][(last_response'.endpoint = "POST /lattes" /\ IsBlankRequest(Val(latte_request')))
          => /\ last_response'.status = 400
             /\ model_calls' = NoModelCalls
             /\ latte_runs' = latte_runs
             /\ fetch_runs' = fetch_runs
             /\ get_rollups' = get_rollups]_vars

\* a request with a whitespace user prompt was rejected after a run was stored
C30_Witness ==
    /\ last_response.endpoint = "POST /lattes" /\ last_response.status = 400
    /\ ~IsNone(latte_request)
    /\ Val(latte_request).system_prompt = "Be brief"
    /\ Val(latte_request).user_prompt = "  "
    /\ Len(latte_runs) = 1
    /\ get_rollups.total_runs = 1

====
